---- MODULE Spec2Model ----
(***************************************************************************)
(* A model of lazyql: the lazy field-resolution proxy (proxy-factory),     *)
(* the per-instance @Shared memoization, global configuration and error    *)
(* routing, the naming-convention codec and the start-up validator.        *)
(*                                                                         *)
(* Strings are sequences of one-character strings, so the codec is         *)
(* computed character by character as the source does.                     *)
(***************************************************************************)
EXTENDS Integers, Sequences, FiniteSets, TLC

(***************************************************************************)
(* Bounds of the model.                                                    *)
(***************************************************************************)
MaxReads == 3

MaxHookReads == 2

MaxIsoReads == 2

MaxFields == 2

MaxWords == 3

MaxWordLen == 2

MaxStructReads == 1
MaxNestedReads == 2
MaxItems == 2

(***************************************************************************)
(* Characters.                                                             *)
(***************************************************************************)
LowerChars == <<"a","b","c","d","e","f","g","h","i","j","k","l","m",
                "n","o","p","q","r","s","t","u","v","w","x","y","z">>

UpperChars == <<"A","B","C","D","E","F","G","H","I","J","K","L","M",
                "N","O","P","Q","R","S","T","U","V","W","X","Y","Z">>

IsLower(c) == \E k \in 1..Len(LowerChars) : LowerChars[k] = c

IsUpper(c) == \E k \in 1..Len(UpperChars) : UpperChars[k] = c

ToUpperCase(c) ==
  IF IsLower(c)
  THEN UpperChars[CHOOSE k \in 1..Len(LowerChars) : LowerChars[k] = c]
  ELSE c

ToLowerCase(c) ==
  IF IsUpper(c)
  THEN LowerChars[CHOOSE k \in 1..Len(UpperChars) : UpperChars[k] = c]
  ELSE c

(***************************************************************************)
(* getter-mapper: the naming-convention codec.                             *)
(***************************************************************************)
RECURSIVE SnakeToCamelFrom(_, _)
SnakeToCamelFrom(str, k) ==
  IF k > Len(str) THEN <<>>
  ELSE IF str[k] = "_" /\ k < Len(str) /\ IsLower(str[k + 1])
       THEN <<ToUpperCase(str[k + 1])>> \o SnakeToCamelFrom(str, k + 2)
       ELSE <<str[k]>> \o SnakeToCamelFrom(str, k + 1)

snakeToCamel(str) == SnakeToCamelFrom(str, 1)

capitalize(str) ==
  IF str = <<>> THEN <<>> ELSE <<ToUpperCase(str[1])>> \o Tail(str)

GetPrefix == <<"g","e","t">>

fieldToGetterName(fieldName) == GetPrefix \o capitalize(snakeToCamel(fieldName))

\* camelToSnake that puts the separator but keeps the capital
RECURSIVE camelToSnakeKeepCase(_)
camelToSnakeKeepCase(str) ==
  IF str = <<>> THEN <<>>
  ELSE (IF IsUpper(str[1]) THEN <<"_", str[1]>> ELSE <<str[1]>>)
       \o camelToSnakeKeepCase(Tail(str))

RECURSIVE camelToSnake(_)
camelToSnake(str) ==
  IF str = <<>> THEN <<>>
  ELSE (IF IsUpper(str[1]) THEN <<"_", ToLowerCase(str[1])>> ELSE <<str[1]>>)
       \o camelToSnake(Tail(str))

StartsWithGet(name) == Len(name) >= 3 /\ SubSeq(name, 1, 3) = GetPrefix

getterToFieldName(getterName) ==
  IF ~StartsWithGet(getterName) \/ Len(getterName) <= 3
  THEN getterName
  ELSE LET withoutGet == SubSeq(getterName, 4, Len(getterName))
           camelCase  == <<ToLowerCase(withoutGet[1])>> \o Tail(withoutGet)
       IN  camelToSnake(camelCase)

isGetterMethod(methodName) == StartsWithGet(methodName) /\ Len(methodName) > 3

(***************************************************************************)
(* State.                                                                  *)
(***************************************************************************)
VARIABLES
  config,     \* globalConfig
  calls,      \* calls[i][m]: how often the original method m ran on instance i
  completed,  \* completed[i]: the `cache` map of instance i (name -> value)
  inFlight,   \* inFlight[i]: the `pending` map of instance i (name -> promise)
  handles,    \* the promises returned by original methods
  reads,      \* the field reads made through the proxies
  hookCalls,  \* the contexts onError was called with
  vInput,     \* validateClass: the class, its schema and the metadata given
  vMeta,      \* validateClass: the metadata object, changed in place
  vWarnings,  \* validateClass: the warnings returned
  vResult,    \* validateClass: "pending", "returned" or "threw"
  vError,     \* validateClass: the field named by the MissingGetterError
  vFields,    \* validateClass: the dtoFields that analyzeDTOClass returned
  codec,      \* a field name taken through the codec and back
  lastOp,     \* the last structural operation made and what it returned
  classOptions, \* the options the class was given to @LazyQL
  nestedReturn, \* what the getter getNested of the class returns
  proxies,    \* every proxy createLazyProxy made: its target and metadata
  debugLog,   \* the debug-level messages the get trap handed to the logger
  held,       \* what the calls of getConfig returned
  registry,   \* registry.classes: class -> metadata
  decorated,  \* the call of the @LazyQL decorator and how it ended
  framework,  \* the schema framework's storages and field-registration entry
  older       \* per instance, the maps of the wrappers that later calls of
              \* wrapSharedMethods wrapped again, innermost first

proxyVars == <<config, calls, completed, inFlight, handles, reads, hookCalls,
               proxies, debugLog, older>>

\* what only getConfig and the decorator change
apiVars == <<held, registry, decorated, framework>>

validatorVars == <<vInput, vMeta, vWarnings, vResult, vError, vFields>>

\* what no operation on a proxy changes
frameVars == <<validatorVars, codec, lastOp, classOptions, nestedReturn,
               apiVars>>

vars == <<config, calls, completed, inFlight, handles, reads, hookCalls,
          vInput, vMeta, vWarnings, vResult, vError, vFields, codec,
          lastOp, classOptions, nestedReturn, proxies, debugLog, held,
          registry, decorated, framework, older>>

(***************************************************************************)
(* The model class wrapped by the proxy: a derived class with three        *)
(* getters and a base class holding the @Shared method they call through   *)
(* `this`, plus one own data property.                                     *)
(***************************************************************************)
F_status      == <<"s","t","a","t","u","s">>
F_total       == <<"t","o","t","a","l">>
F_currency    == <<"c","u","r","r","e","n","c","y">>
F_totals_data == <<"t","o","t","a","l","s","_","d","a","t","a">>
F_note        == <<"n","o","t","e">>
F_memo          == <<"m","e","m","o">>
F_name        == <<"n","a","m","e">>
F_zz          == <<"z","z">>

M_getStatus     == <<"g","e","t","S","t","a","t","u","s">>
M_getGrandTotal == <<"g","e","t","G","r","a","n","d","T","o","t","a","l">>
M_getCurrency   == <<"g","e","t","C","u","r","r","e","n","c","y">>
M_getTotalsData == <<"g","e","t","T","o","t","a","l","s","D","a","t","a">>

\* the field whose getter returns another object, and its getter
F_nested    == <<"n","e","s","t","e","d">>
M_getNested == <<"g","e","t","N","e","s","t","e","d">>

NoName == <<>>

\* names used by the classes and schemas given to the validator
F_email          == <<"e","m","a","i","l">>
M_getEmail       == <<"g","e","t","E","m","a","i","l">>
M_getStatusValue == <<"g","e","t","S","t","a","t","u","s","V","a","l","u","e">>

Inst == {"A", "B"}

ClassName == "DerivedModel"

\* prototype chain of the instance, youngest first
ModelChain ==
  << [own |-> {M_getStatus, M_getGrandTotal, M_getCurrency, M_getNested}],
     [own |-> {M_getTotalsData}] >>

PrototypeMethods == UNION {ModelChain[k].own : k \in DOMAIN ModelChain}

OwnProperties == {F_name, F_note}

\* the method a getter calls as this.X() in its body (NoName: none)
Callee(m) ==
  IF m \in {M_getGrandTotal, M_getCurrency} THEN M_getTotalsData ELSE NoName

FixtureMetadata ==
  [ fieldMappings  |-> (F_total :> M_getGrandTotal),
    sharedMethods  |-> {M_getTotalsData},
    requiredFields |-> {F_status, F_total},
    optionalFields |-> {F_note, F_memo},
    options        |-> classOptions ]

\* the class of the nested objects and its metadata (the tests of
\* "Nested proxy support")
F_value    == <<"v","a","l","u","e">>
M_getValue == <<"g","e","t","V","a","l","u","e">>

NestedMetadata ==
  [ fieldMappings  |-> (F_value :> M_getValue),
    sharedMethods  |-> {},
    requiredFields |-> {F_value},
    optionalFields |-> {},
    options        |-> <<>> ]

\* registry: the classes registerClass was called for, with their metadata
InitialRegistry ==
  ("NestedModel" :> NestedMetadata) @@ (ClassName :> FixtureMetadata)

\* registry.classes
Registry == registry

\* the metadata object the proxies of the model class close over: the one
\* registered for the class
ProxyMetadata == Registry[ClassName]

\* objects by class and identity
Obj(cls, id) == [k |-> "object", cls |-> cls, id |-> id]

\* the proxies of the two model instances, and the proxy of a NestedModel
\* instance that was wrapped when it was made
InitialProxies ==
  << [target |-> Obj(ClassName, "A"), className |-> ClassName,
      metaOf |-> ClassName, debug |-> FALSE],
     [target |-> Obj(ClassName, "B"), className |-> ClassName,
      metaOf |-> ClassName, debug |-> FALSE],
     [target |-> Obj("NestedModel", "n1"), className |-> "NestedModel",
      metaOf |-> "NestedModel", debug |-> FALSE] >>

ReadableFields ==
  {F_status, F_total, F_currency, F_totals_data, F_note, F_name, F_zz}

(***************************************************************************)
(* Values.                                                                 *)
(***************************************************************************)
Null      == [k |-> "null"]
Undefined == [k |-> "undefined"]
NoValue   == [k |-> "none"]

\* what the n-th invocation of method m returns / throws
\* (getNested returns the object the class was set up to return)
Val(m, n) ==
  IF m = M_getNested THEN nestedReturn ELSE [k |-> "value", by |-> m, n |-> n]
Err(m, n) == [k |-> "error", by |-> m, n |-> n]

\* what a getter derives from the value of the method it calls
Derive(g, v) == IF g = NoName THEN v ELSE [k |-> "derived", by |-> g, of |-> v]

PropValue(p) == [k |-> "prop", name |-> p]

IsError(v) == v.k \in {"error", "replaced"}

(***************************************************************************)
(* config: configure / resetConfig / handleError.                          *)
(***************************************************************************)
DefaultConfig ==
  [debug |-> FALSE, logger |-> "defaultLogger", timing |-> FALSE,
   onError |-> "null"]

\* the option objects passed to configure(); a key left out is undefined
ConfigureInputs ==
  { [onError |-> "transform"], [onError |-> "suppress"], [onError |-> "null"] }

configure(cfg, options) ==
  [key \in DOMAIN cfg |->
     IF key \in DOMAIN options THEN options[key] ELSE cfg[key]]

\* the error handlers a caller installs: one returns a new error built from
\* the context, one returns null
OnErrorHook(mode, context) ==
  IF mode = "transform"
  THEN [k |-> "replaced", field |-> context.fieldName, of |-> context.error]
  ELSE Null

\* handleError that rethrows the original error when the hook returns null
handleErrorNoSuppress(cfg, hooks, access, className, fieldName, getterName, error) ==
  LET context == [access |-> access, className |-> className,
                  fieldName |-> fieldName, getterName |-> getterName,
                  error |-> error]
      handled == OnErrorHook(cfg.onError, context)
  IN  IF cfg.onError # "null"
      THEN [handled |-> IF handled = Null THEN error ELSE handled,
            hooks   |-> Append(hooks, context)]
      ELSE [handled |-> error, hooks |-> hooks]

\* handleError that calls the hook once per error object and reuses its
\* answer for the other accesses failing with the same error
handleErrorOncePerError(cfg, hooks, access, className, fieldName, getterName, error) ==
  LET context == [access |-> access, className |-> className,
                  fieldName |-> fieldName, getterName |-> getterName,
                  error |-> error]
      seen    == {k \in DOMAIN hooks : hooks[k].error = error}
  IN  IF cfg.onError = "null" THEN [handled |-> error, hooks |-> hooks]
      ELSE IF seen # {}
      THEN [handled |-> OnErrorHook(cfg.onError,
                                    hooks[CHOOSE k \in seen : TRUE]),
            hooks |-> hooks]
      ELSE [handled |-> OnErrorHook(cfg.onError, context),
            hooks   |-> Append(hooks, context)]

\* returns the handled error (Null: suppressed) and the extended hook log;
\* `access` identifies the read being routed
handleError(cfg, hooks, access, className, fieldName, getterName, error) ==
  LET context == [access |-> access, className |-> className,
                  fieldName |-> fieldName, getterName |-> getterName,
                  error |-> error]
  IN  IF cfg.onError # "null"
      THEN [handled |-> OnErrorHook(cfg.onError, context),
            hooks   |-> Append(hooks, context)]
      ELSE [handled |-> error, hooks |-> hooks]

(***************************************************************************)
(* proxy-factory: wrapSharedMethods.                                       *)
(***************************************************************************)
\* the names wrapSharedMethods replaces: shared names that are functions
WrappedShared ==
  {m \in ProxyMetadata.sharedMethods : m \in PrototypeMethods}

\* one pair of maps for the whole class
CacheOfClass(i) == "A"

\* the instance whose two maps the wrapper of instance i closes over
CacheOf(i) == i

\* original.apply(this): the n-th run of m returns a value, throws, or
\* returns a promise, as `kind` says
InvokeOriginal(st, i, m, kind) ==
  LET n   == st.calls[i][m] + 1
      st1 == [st EXCEPT !.calls[i][m] = n]
  IN  CASE kind = "value" ->
             [st |-> st1, out |-> "value", v |-> Val(m, n), h |-> 0,
              hit |-> "plain"]
        [] kind = "throw" ->
             [st |-> st1, out |-> "throw", v |-> Err(m, n), h |-> 0,
              hit |-> "plain"]
        [] kind = "async" ->
             [st |-> [st1 EXCEPT !.handles =
                        Append(@, [inst |-> i, method |-> m, shared |-> FALSE,
                                   n |-> n, state |-> "pending", top |-> 0,
                                   ran |-> 0])],
              out |-> "handle", v |-> NoValue, h |-> Len(st.handles) + 1,
              hit |-> "plain"]

\* a wrapper that never looks at the pending map
SharedWrapperNoPending(st, i, m, kind) ==
  LET c == CacheOf(i)
  IN  IF m \in DOMAIN st.completed[c]
      THEN [st |-> st, out |-> "value", v |-> st.completed[c][m], h |-> 0,
            hit |-> "cache"]
      ELSE LET r == InvokeOriginal(st, i, m, kind)
           IN  CASE r.out = "handle" ->
                      [st |-> [r.st EXCEPT
                                 !.inFlight[c] = (m :> r.h) @@ @,
                                 !.handles[r.h].shared = TRUE],
                       out |-> "handle", v |-> NoValue, h |-> r.h,
                       hit |-> "miss"]
                 [] r.out = "value" ->
                      [st |-> [r.st EXCEPT !.completed[c] = (m :> r.v) @@ @],
                       out |-> "value", v |-> r.v, h |-> 0, hit |-> "miss"]
                 [] r.out = "throw" ->
                      [st |-> r.st, out |-> "throw", v |-> r.v, h |-> 0,
                       hit |-> "miss"]

\* a wrapper that never looks at the cache map
SharedWrapperNoCache(st, i, m, kind) ==
  LET c == CacheOf(i)
  IN  IF m \in DOMAIN st.inFlight[c]
      THEN [st |-> st, out |-> "handle", v |-> NoValue,
            h |-> st.inFlight[c][m], hit |-> "pending"]
      ELSE LET r == InvokeOriginal(st, i, m, kind)
           IN  CASE r.out = "handle" ->
                      [st |-> [r.st EXCEPT
                                 !.inFlight[c] = (m :> r.h) @@ @,
                                 !.handles[r.h].shared = TRUE],
                       out |-> "handle", v |-> NoValue, h |-> r.h,
                       hit |-> "miss"]
                 [] r.out = "value" ->
                      [st |-> [r.st EXCEPT !.completed[c] = (m :> r.v) @@ @],
                       out |-> "value", v |-> r.v, h |-> 0, hit |-> "miss"]
                 [] r.out = "throw" ->
                      [st |-> r.st, out |-> "throw", v |-> r.v, h |-> 0,
                       hit |-> "miss"]

\* a wrapper that catches what the original throws and caches it
SharedWrapperCachesThrow(st, i, m, kind) ==
  LET c == CacheOf(i)
  IN  IF m \in DOMAIN st.completed[c]
      THEN [st |-> st, out |-> IF IsError(st.completed[c][m])
                               THEN "throw" ELSE "value",
            v |-> st.completed[c][m], h |-> 0, hit |-> "cache"]
      ELSE IF m \in DOMAIN st.inFlight[c]
      THEN [st |-> st, out |-> "handle", v |-> NoValue,
            h |-> st.inFlight[c][m], hit |-> "pending"]
      ELSE LET r == InvokeOriginal(st, i, m, kind)
           IN  CASE r.out = "handle" ->
                      [st |-> [r.st EXCEPT
                                 !.inFlight[c] = (m :> r.h) @@ @,
                                 !.handles[r.h].shared = TRUE],
                       out |-> "handle", v |-> NoValue, h |-> r.h,
                       hit |-> "miss"]
                 [] OTHER ->
                      [st |-> [r.st EXCEPT !.completed[c] = (m :> r.v) @@ @],
                       out |-> r.out, v |-> r.v, h |-> 0, hit |-> "miss"]

\* the number of wrappers wrapSharedMethods has put around a method of the
\* instance whose maps are c
Wrappers(st, c) == Len(st.older[c]) + 1

\* the two maps the k-th wrapper closes over: the maps now stored on the
\* instance belong to the outermost wrapper
MapsOf(st, c, k) ==
  IF k = Wrappers(st, c)
  THEN [completed |-> st.completed[c], inFlight |-> st.inFlight[c]]
  ELSE st.older[c][k]

\* cache.set / pending.set / pending.delete of the k-th wrapper
SetMaps(st, c, k, maps) ==
  IF k = Wrappers(st, c)
  THEN [st EXCEPT !.completed[c] = maps.completed,
                  !.inFlight[c] = maps.inFlight]
  ELSE [st EXCEPT !.older[c][k] = maps]

\* the k-th wrapper around m: `original` is the method of the prototype for
\* the first one and the wrapper installed before for every later one
\* (line 45).  hit tells which map answered; "miss" is a run of the method
RECURSIVE WrapperAt(_, _, _, _, _)
WrapperAt(st, i, m, kind, k) ==
  LET c    == CacheOf(i)
      maps == MapsOf(st, c, k)
  IN  IF k = 0 THEN InvokeOriginal(st, i, m, kind)
      ELSE IF m \in DOMAIN maps.completed
      THEN [st |-> st, out |-> "value", v |-> maps.completed[m], h |-> 0,
            hit |-> "cache"]
      ELSE IF m \in DOMAIN maps.inFlight
      THEN [st |-> st, out |-> "handle", v |-> NoValue,
            h |-> maps.inFlight[m], hit |-> "pending"]
      ELSE LET r   == WrapperAt(st, i, m, kind, k - 1)
               hit == IF k = 1 THEN "miss" ELSE r.hit
           IN  CASE r.out = "handle" ->
                      [st |-> [SetMaps(r.st, c, k,
                                 [maps EXCEPT !.inFlight = (m :> r.h) @@ @])
                               EXCEPT !.handles[r.h].shared = TRUE,
                                      !.handles[r.h].top = k],
                       out |-> "handle", v |-> NoValue, h |-> r.h,
                       hit |-> hit]
                 [] r.out = "value" ->
                      [st |-> SetMaps(r.st, c, k,
                                [maps EXCEPT !.completed = (m :> r.v) @@ @]),
                       out |-> "value", v |-> r.v, h |-> 0, hit |-> hit]
                 [] r.out = "throw" ->
                      [st |-> r.st, out |-> "throw", v |-> r.v, h |-> 0,
                       hit |-> hit]

\* the replacement function installed on the instance: the outermost wrapper
SharedWrapper(st, i, m, kind) ==
  WrapperAt(st, i, m, kind, Wrappers(st, CacheOf(i)))

\* this.m() that reaches the prototype's method, not the wrapper
ThisCallPrototype(st, i, m, kind) == InvokeOriginal(st, i, m, kind)

\* this.m() inside a method body: the instance's own property (the wrapper)
\* shadows the prototype method
ThisCall(st, i, m, kind) ==
  IF m \in WrappedShared
  THEN SharedWrapper(st, i, m, kind)
  ELSE InvokeOriginal(st, i, m, kind)

\* a call that finds the caching wrapper on every method
CallMethodAllShared(st, i, m, kind) == SharedWrapper(st, i, m, kind)

\* target[m].call(target)
CallMethod(st, i, m, kind) ==
  IF m \in WrappedShared THEN SharedWrapper(st, i, m, kind)
  ELSE IF Callee(m) = NoName THEN InvokeOriginal(st, i, m, kind)
  ELSE LET st1 == [st EXCEPT !.calls[i][m] = @ + 1]
           r   == ThisCall(st1, i, Callee(m), kind)
       IN  [r EXCEPT !.v = IF r.out = "value" THEN Derive(m, r.v) ELSE r.v]

(***************************************************************************)
(* proxy-factory: createLazyProxy, the get trap.                           *)
(***************************************************************************)
\* the values of line 198 (`true`) and of typeof
JsTrue == [k |-> "true"]

TypeOf(v) ==
  CASE v.k \in {"null", "object", "array", "proxy"} -> "object"
    [] v.k = "undefined" -> "undefined"
    [] v.k = "function" -> "function"
    [] OTHER -> "string"

\* obj[sym] for the two symbols of the library: a proxy answers them in
\* its get trap (lines 193-199), no other object has them
GetSymbol(px, obj, sym) ==
  IF TypeOf(obj) = "object" /\ obj.k = "proxy"
  THEN IF sym = "LAZY_INSTANCE" THEN px[obj.id].target
       ELSE IF sym = "IS_LAZY_PROXY" THEN JsTrue
       ELSE Undefined
  ELSE Undefined

isLazyProxy(px, obj) ==
  /\ TypeOf(obj) = "object"
  /\ obj # Null
  /\ GetSymbol(px, obj, "IS_LAZY_PROXY") = JsTrue

\* getOriginalInstance that answers the proxy itself
getOriginalInstanceSelf(px, proxy) == proxy

getOriginalInstance(px, proxy) ==
  IF isLazyProxy(px, proxy) THEN GetSymbol(px, proxy, "LAZY_INSTANCE")
  ELSE proxy

\* what value.constructor is for an object made by Object.create(null)
NoConstructor == "undefined"

\* value.constructor: a proxy hands the read on to its target (line 207)
RECURSIVE ConstructorOf(_, _)
ConstructorOf(px, value) ==
  IF value.k = "proxy" THEN ConstructorOf(px, px[value.id].target)
  ELSE IF value.k = "array" THEN "Array"
  ELSE value.cls

\* classDebug ?? globalConfig.debug, for the options of one class
isDebugEnabled(options) ==
  IF "debug" \in DOMAIN options THEN options["debug"] ELSE config.debug

\* new Proxy(instance, ...): the proxies made so far plus the new one, whose
\* traps close over the debug flag computed now (line 184)
createLazyProxy(px, instance, metaOf, className) ==
  [value   |-> [k |-> "proxy", id |-> Len(px) + 1],
   proxies |-> Append(px, [target |-> instance, className |-> className,
                           metaOf |-> metaOf,
                           debug |-> isDebugEnabled(Registry[metaOf].options)])]

\* the TypeError of reading .name of undefined (line 142)
TypeError == [k |-> "error", by |-> NoName, n |-> 0]

\* a value handed back / an exception thrown, with the proxies that exist
Returned(value, px) == [value |-> value, proxies |-> px, threw |-> FALSE]
Thrown(error, px)   == [value |-> error, proxies |-> px, threw |-> TRUE]

RECURSIVE maybeWrapNested(_, _, _)
RECURSIVE MapItems(_, _)
\* value.map(item => maybeWrapNested(item, true, debug)); an exception of
\* the callback ends the map
MapItems(px, items) ==
  IF items = <<>> THEN Returned(<<>>, px)
  ELSE LET h == maybeWrapNested(px, Head(items), TRUE)
           t == MapItems(h.proxies, Tail(items))
       IN  IF h.threw THEN h
           ELSE IF t.threw THEN t
           ELSE Returned(<<h.value>> \o t.value, t.proxies)

\* the part of maybeWrapNested for a value that is an object and no array
\* (lines 139-156)
WrapObject(px, value) ==
  LET constructor == ConstructorOf(px, value)
      c == createLazyProxy(px, value, constructor, constructor)
  IN  IF constructor = "Object" THEN Returned(value, px)
      ELSE IF constructor = NoConstructor THEN Thrown(TypeError, px)
      ELSE IF constructor \in DOMAIN Registry
      THEN Returned(c.value, c.proxies)
      ELSE Returned(value, px)

\* the array that value.map returns
WrapArray(px, value) ==
  LET r == MapItems(px, value.items)
  IN  IF r.threw THEN r
      ELSE Returned([k |-> "array", items |-> r.value], r.proxies)

\* maybeWrapNested without the test of line 128
maybeWrapNestedNoProxyCheck(px, value, nestedProxy) ==
  IF ~nestedProxy THEN Returned(value, px)
  ELSE IF value = Null \/ value = Undefined THEN Returned(value, px)
  ELSE IF value.k = "array" THEN WrapArray(px, value)
  ELSE IF TypeOf(value) = "object" THEN WrapObject(px, value)
  ELSE Returned(value, px)

\* the value to hand out (or the exception) and the proxies that exist
\* afterwards
maybeWrapNested(px, value, nestedProxy) ==
  IF ~nestedProxy THEN Returned(value, px)
  ELSE IF isLazyProxy(px, value) THEN Returned(value, px)
  ELSE IF value = Null \/ value = Undefined THEN Returned(value, px)
  ELSE IF value.k = "array" THEN WrapArray(px, value)
  ELSE IF TypeOf(value) = "object" THEN WrapObject(px, value)
  ELSE Returned(value, px)

\* metadata.options.nestedProxy ?? false (line 185)
NestedProxyOption ==
  IF "nestedProxy" \in DOMAIN ProxyMetadata.options
  THEN ProxyMetadata.options["nestedProxy"] ELSE FALSE

\* a lookup that takes the first explicit mapping whatever the field is
ResolveGetterAnyMapping(metadata, fieldName) ==
  IF DOMAIN metadata.fieldMappings # {}
  THEN metadata.fieldMappings[CHOOSE f \in DOMAIN metadata.fieldMappings : TRUE]
  ELSE fieldToGetterName(fieldName)

\* a lookup that knows the naming convention only
ResolveGetterConventionOnly(metadata, fieldName) ==
  fieldToGetterName(fieldName)

ResolveGetter(metadata, fieldName) ==
  IF fieldName \in DOMAIN metadata.fieldMappings
  THEN metadata.fieldMappings[fieldName]
  ELSE fieldToGetterName(fieldName)

IsFunction(name) == name \in PrototypeMethods

\* createLazyProxy was called for instance i: through the class the
\* decorator returned, or by maybeWrapNested
Constructed(i) ==
  \E p \in DOMAIN proxies : proxies[p].target = Obj(ClassName, i)

State == [calls |-> calls, completed |-> completed, inFlight |-> inFlight,
          handles |-> handles, older |-> older,
          wrapped |-> {i \in Inst : Constructed(i)}]

\* a wrapSharedMethods that hands every instance the maps of the first one
wrapSharedMethodsClassMaps(st, i) ==
  [st EXCEPT !.completed[i] = st.completed["A"],
             !.inFlight[i] = st.inFlight["A"],
             !.wrapped = @ \cup {i}]

\* a wrapSharedMethods that always wraps the method of the prototype: the
\* wrappers installed before, and their maps, are lost
wrapSharedMethodsOfPrototype(st, i) ==
  [st EXCEPT !.completed[CacheOf(i)] = <<>>, !.inFlight[CacheOf(i)] = <<>>,
             !.wrapped = @ \cup {i}]

\* wrapSharedMethods: the instance gets two new maps, both empty (lines
\* 37-41), and around each @Shared method a wrapper that closes over them
\* and over the function found on the instance (lines 44-53): on an
\* instance wrapped before that is the wrapper of the earlier call, which
\* keeps its own maps
wrapSharedMethods(st, i) ==
  LET c == CacheOf(i)
  IN  IF i \in st.wrapped
      THEN [st EXCEPT
              !.older[c] = Append(@, [completed |-> st.completed[c],
                                      inFlight |-> st.inFlight[c]]),
              !.completed[c] = <<>>, !.inFlight[c] = <<>>]
      ELSE [st EXCEPT !.completed[c] = <<>>, !.inFlight[c] = <<>>,
                      !.wrapped = @ \cup {i}]

\* the calls of wrapSharedMethods that createLazyProxy made for the proxies
\* px[p], px[p + 1], ... on instances of the model class
RECURSIVE WrapAll(_, _, _)
WrapAll(st, px, p) ==
  IF p > Len(px) THEN st
  ELSE LET target == px[p].target
       IN  WrapAll(IF target.k = "object" /\ target.cls = ClassName
                      /\ target.id \in Inst
                   THEN wrapSharedMethods(st, target.id) ELSE st,
                   px, p + 1)

Kinds == {"value", "throw", "async"}


\* Reflect.get(target, prop, receiver): an own data property, a wrapper
\* that wrapSharedMethods installed on the instance, or a method found on
\* the prototype chain
DirectValue(i, prop) ==
  IF prop \in OwnProperties THEN PropValue(prop)
  ELSE IF prop \in WrappedShared
  THEN [k |-> "function", name |-> prop, own |-> TRUE]
  ELSE IF prop \in PrototypeMethods
  THEN [k |-> "function", name |-> prop, own |-> FALSE]
  ELSE Undefined

\* the record of a read that found no getter (lines 272-284)
PlainRead(i, fieldName, getterName, result) ==
  [inst |-> i, field |-> fieldName, getter |-> getterName, invoked |-> FALSE,
   src |-> 0, derive |-> NoName, hit |-> "none", state |-> "returned",
   raw |-> result, result |-> result, routed |-> "n/a", timed |-> FALSE]

\* the proxy createLazyProxy made of instance i of the model class
ProxyOf(i) ==
  CHOOSE p \in DOMAIN proxies : proxies[p].target = Obj(ClassName, i)

\* log('debug', `Executing getter: ...`) of line 227: the message handed to
\* the configured logger, with the number of runs the method had by then
ExecutingGetter(access, i, getterName, fieldName) ==
  [msg |-> "Executing getter", access |-> access, inst |-> i,
   className |-> ClassName, getter |-> getterName, field |-> fieldName,
   logger |-> config.logger, runs |-> calls[i][getterName]]

\* log('debug', `Getter completed: ...`) of lines 242 and 258, handed to
\* the logger configured when the message is logged
GetterCompleted(access, i, getterName, fieldName) ==
  [msg |-> "Getter completed", access |-> access, inst |-> i,
   className |-> ClassName, getter |-> getterName, field |-> fieldName,
   logger |-> config.logger, runs |-> calls[i][getterName]]

\* isDebugEnabled evaluated by the get trap at each read
DebugOfNow(i) == isDebugEnabled(ProxyMetadata.options)

\* the closure variable `debug` of the proxy of instance i (line 184)
DebugOf(i) == proxies[ProxyOf(i)].debug

\* the get trap for a string property that is not a standard object method
Read(i, fieldName, kind) ==
  /\ LET getterName == ResolveGetter(ProxyMetadata, fieldName)
         access     == Len(reads) + 1
     IN  IF IsFunction(getterName)
         THEN LET r      == CallMethod(State, i, getterName, kind)
                  before == IF DebugOf(i)
                            THEN <<ExecutingGetter(access, i, getterName,
                                                   fieldName)>>
                            ELSE <<>>
                  after  == IF r.out = "value" /\ config.timing
                            THEN <<GetterCompleted(access, i, getterName,
                                                   fieldName)>>
                            ELSE <<>>
              IN  debugLog' = debugLog \o before \o after
         ELSE debugLog' = debugLog
  /\ LET getterName == ResolveGetter(ProxyMetadata, fieldName)
         access     == Len(reads) + 1
     IN  IF IsFunction(getterName)
         THEN LET r    == CallMethod(State, i, getterName, kind)
                  base == [inst |-> i, field |-> fieldName,
                           getter |-> getterName, invoked |-> TRUE,
                           src |-> r.h,
                           derive |-> IF getterName \in WrappedShared
                                      THEN NoName ELSE
                                      IF Callee(getterName) = NoName
                                      THEN NoName ELSE getterName,
                           hit |-> r.hit, state |-> "pending",
                           raw |-> NoValue, result |-> NoValue,
                           routed |-> "n/a", timed |-> config.timing]
                  he   == handleError(config, hookCalls, access, ClassName,
                                      fieldName, getterName, r.v)
                  wn   == IF r.out = "value"
                          THEN maybeWrapNested(proxies, r.v,
                                               NestedProxyOption).proxies
                          ELSE proxies
                  st   == WrapAll(r.st, wn, Len(proxies) + 1)
              IN  /\ calls' = st.calls
                  /\ completed' = st.completed
                  /\ inFlight' = st.inFlight
                  /\ handles' = st.handles
                  /\ older' = st.older
                  /\ CASE r.out = "handle" ->
                            /\ reads' = Append(reads, base)
                            /\ UNCHANGED <<hookCalls, proxies>>
                       [] r.out = "value" ->
                            LET w  == maybeWrapNested(proxies, r.v,
                                                      NestedProxyOption)
                                hw == handleError(config, hookCalls, access,
                                                  ClassName, fieldName,
                                                  getterName, w.value)
                            IN  /\ proxies' = w.proxies
                                /\ IF w.threw
                                   THEN /\ reads' = Append(reads,
                                             [base EXCEPT
                                                !.state =
                                                   IF hw.handled = Null
                                                   THEN "returned"
                                                   ELSE "threw",
                                                !.raw = r.v,
                                                !.result = hw.handled,
                                                !.routed = config.onError])
                                        /\ hookCalls' = hw.hooks
                                   ELSE /\ reads' = Append(reads,
                                             [base EXCEPT
                                                !.state = "returned",
                                                !.raw = r.v,
                                                !.result = w.value])
                                        /\ hookCalls' = hookCalls
                       [] r.out = "throw" ->
                            /\ reads' = Append(reads,
                                 [base EXCEPT
                                    !.state = IF he.handled = Null
                                              THEN "returned" ELSE "threw",
                                    !.raw = r.v, !.result = he.handled,
                                    !.routed = config.onError])
                            /\ hookCalls' = he.hooks
                            /\ proxies' = proxies
         ELSE /\ reads' = Append(reads,
                   IF fieldName \in ProxyMetadata.optionalFields
                   THEN PlainRead(i, fieldName, getterName, Null)
                   ELSE IF DirectValue(i, fieldName) # Undefined
                   THEN PlainRead(i, fieldName, getterName,
                                  DirectValue(i, fieldName))
                   ELSE PlainRead(i, fieldName, getterName, Undefined))
              /\ UNCHANGED <<calls, completed, inFlight, handles, hookCalls,
                             proxies, older>>
  /\ UNCHANGED config
  /\ UNCHANGED frameVars

\* the promise an original method returned settles
SettleUnderlying(h, ok) ==
  /\ h \in DOMAIN handles
  /\ handles[h].state = "pending"
  /\ handles' = [handles EXCEPT ![h].state =
                   IF handles[h].shared
                   THEN (IF ok THEN "p0_ok" ELSE "p0_err")
                   ELSE (IF ok THEN "ok" ELSE "err")]
  /\ UNCHANGED <<config, calls, completed, inFlight, reads, hookCalls>>
  /\ UNCHANGED <<frameVars, proxies, debugLog, older>>

\* callbacks without the .catch: a rejected promise stays in the pending map
SharedSettledKeepsRejected(h) ==
  /\ h \in DOMAIN handles
  /\ handles[h].state \in {"p0_ok", "p0_err"}
  /\ LET c == CacheOf(handles[h].inst)
         m == handles[h].method
     IN  IF handles[h].state = "p0_ok"
         THEN /\ completed' = [completed EXCEPT
                                 ![c] = (m :> Val(m, handles[h].n)) @@ @]
              /\ inFlight' = [inFlight EXCEPT
                                ![c] = [x \in DOMAIN @ \ {m} |-> @[x]]]
         ELSE UNCHANGED <<completed, inFlight>>
  /\ handles' = [handles EXCEPT ![h].state =
                   IF handles[h].state = "p0_ok" THEN "ok" ELSE "err"]
  /\ UNCHANGED <<config, calls, reads, hookCalls>>
  /\ UNCHANGED <<frameVars, proxies, debugLog, older>>

\* the .then / .catch callbacks of the shared wrapper (lines 82-96).  The
\* promise of each wrapper is chained to the promise of the wrapper inside
\* it, so the callbacks run innermost first; the outermost promise is the
\* one the reads hold
SharedSettled(h) ==
  /\ h \in DOMAIN handles
  /\ handles[h].state \in {"p0_ok", "p0_err"}
  /\ LET c    == CacheOf(handles[h].inst)
         m    == handles[h].method
         k    == handles[h].ran + 1
         maps == MapsOf(State, c, k)
         st   == SetMaps(State, c, k,
                   [completed |->
                      IF handles[h].state = "p0_ok"
                      THEN (m :> Val(m, handles[h].n)) @@ maps.completed
                      ELSE maps.completed,
                    inFlight |->
                      [x \in DOMAIN maps.inFlight \ {m} |-> maps.inFlight[x]]])
     IN  /\ completed' = st.completed
         /\ inFlight' = st.inFlight
         /\ older' = st.older
         /\ handles' = [handles EXCEPT
                          ![h].ran = k,
                          ![h].state =
                            IF k < handles[h].top THEN @
                            ELSE IF @ = "p0_ok" THEN "ok" ELSE "err"]
  /\ UNCHANGED <<config, calls, reads, hookCalls>>
  /\ UNCHANGED <<frameVars, proxies, debugLog>>

\* the .then / .catch callbacks of the get trap (lines 239-253)
ReadSettled(a) ==
  /\ a \in DOMAIN reads
  /\ reads[a].state = "pending"
  /\ handles[reads[a].src].state \in {"ok", "err"}
  /\ LET hd  == handles[reads[a].src]
         rd  == reads[a]
         val == Derive(rd.derive, Val(hd.method, hd.n))
         err == Err(hd.method, hd.n)
         he  == handleError(config, hookCalls, a, ClassName, rd.field,
                            rd.getter, err)
         w   == maybeWrapNested(proxies, val, NestedProxyOption)
         hw  == handleError(config, hookCalls, a, ClassName, rd.field,
                            rd.getter, w.value)
     IN  IF hd.state = "ok"
         THEN /\ proxies' = w.proxies
              /\ IF w.threw
                 THEN /\ reads' = [reads EXCEPT
                                     ![a].state = IF hw.handled = Null
                                                  THEN "resolved"
                                                  ELSE "rejected",
                                     ![a].raw = val,
                                     ![a].result = hw.handled,
                                     ![a].routed = config.onError]
                      /\ hookCalls' = hw.hooks
                 ELSE /\ reads' = [reads EXCEPT
                                     ![a].state = "resolved", ![a].raw = val,
                                     ![a].result = w.value]
                      /\ hookCalls' = hookCalls
         ELSE /\ reads' = [reads EXCEPT
                             ![a].state = IF he.handled = Null
                                          THEN "resolved" ELSE "rejected",
                             ![a].raw = err, ![a].result = he.handled,
                             ![a].routed = config.onError]
              /\ hookCalls' = he.hooks
              /\ proxies' = proxies
  /\ LET st == WrapAll(State, proxies', Len(proxies) + 1)
     IN  /\ completed' = st.completed
         /\ inFlight' = st.inFlight
         /\ older' = st.older
  /\ debugLog' = IF handles[reads[a].src].state = "ok" /\ config.timing
                 THEN Append(debugLog,
                             GetterCompleted(a, reads[a].inst,
                                             reads[a].getter, reads[a].field))
                 ELSE debugLog
  /\ UNCHANGED <<config, calls, handles>>
  /\ UNCHANGED frameVars

Configure(options) ==
  /\ config' = configure(config, options)
  /\ config' # config
  /\ UNCHANGED <<calls, completed, inFlight, handles, reads, hookCalls>>
  /\ UNCHANGED <<frameVars, proxies, debugLog, older>>

resetConfig ==
  /\ config # DefaultConfig
  /\ config' = DefaultConfig
  /\ UNCHANGED <<calls, completed, inFlight, handles, reads, hookCalls>>
  /\ UNCHANGED <<frameVars, proxies, debugLog, older>>

(***************************************************************************)
(* validator: analyzeDTOClass.                                             *)
(*                                                                         *)
(* A schema class is described by what the NestJS storages and the         *)
(* reflect-metadata of its prototype hold:                                 *)
(*   nestAvailable  require('@nestjs/graphql') succeeds                    *)
(*   lazyAvailable  the lazy-metadata storage module can be loaded          *)
(*   existing       fields already in TypeMetadataStorage for the class    *)
(*   captured       registrations for the class made through               *)
(*                  addClassFieldMetadata while the lazy functions run     *)
(*   afterLoad      fields in TypeMetadataStorage after they ran           *)
(*   ownNames       property names of a trial instance and the prototype   *)
(*   design         the names carrying design:type metadata                *)
(***************************************************************************)
Includes(seq, x) == \E k \in DOMAIN seq : seq[k] = x

FieldInfoOf(f) ==
  [name |-> IF f.schemaName # NoName THEN f.schemaName ELSE f.name,
   isRequired |-> ~f.nullable,
   type |-> "undefined"]

\* null is written <<>>: analyzeDTOClass treats null and [] alike
tryGetNestJSFields(dto) ==
  IF ~dto.nestAvailable THEN <<>>
  ELSE IF Len(dto.existing) > 0
  THEN [k \in DOMAIN dto.existing |-> FieldInfoOf(dto.existing[k])]
  ELSE IF ~dto.lazyAvailable THEN <<>>
  ELSE IF Len(dto.captured) > 0
  THEN [k \in DOMAIN dto.captured |-> FieldInfoOf(dto.captured[k])]
  ELSE IF Len(dto.afterLoad) > 0
  THEN [k \in DOMAIN dto.afterLoad |-> FieldInfoOf(dto.afterLoad[k])]
  ELSE <<>>

\* the dictionary names this model uses, in the order lines 180-222 add them
CommonNames == <<F_email, F_status>>

RECURSIVE AddNames(_, _)
AddNames(acc, names) ==
  IF names = <<>> THEN acc
  ELSE AddNames(IF Includes(acc, Head(names)) THEN acc
                ELSE Append(acc, Head(names)),
                Tail(names))

scanForDecoratedFields(dto) ==
  LET potentialNames == AddNames(AddNames(<<>>, dto.ownNames), CommonNames)
      found == SelectSeq(potentialNames, LAMBDA name : name \in dto.design)
  IN  [k \in DOMAIN found |->
         [name |-> found[k], isRequired |-> TRUE, type |-> "designType"]]

analyzeDTOClass(dto) ==
  LET nestJSFields  == tryGetNestJSFields(dto)
      scannedFields == scanForDecoratedFields(dto)
  IN  IF Len(nestJSFields) > 0 THEN nestJSFields
      ELSE IF Len(scannedFields) > 0 THEN scannedFields
      ELSE <<>>

(***************************************************************************)
(* validator: tryGetNestJSFields seen with the storages it works on.       *)
(*                                                                         *)
(*   nestAvailable  require('@nestjs/graphql') succeeds                    *)
(*   lazyAvailable  the lazy-metadata storage module can be loaded          *)
(*   own        the own property addClassFieldMetadata of                  *)
(*              TypeMetadataStorage ("none": only the prototype has one)   *)
(*   fields     the field metadata TypeMetadataStorage holds               *)
(*   lazy       lazyMetadataByTarget: a Map, undefined, or something whose *)
(*              entries() cannot be called                                 *)
(*   functions  the deferred closures in the Map, each under the key of a  *)
(*              class or under the FIELD_LAZY_METADATA symbol              *)
(*   received   the metadata the entry point that was installed before the *)
(*              call was called with                                       *)
(*   intercepted  the metadata the capturing function was called with      *)
(*   attempted  the strategies analyzeDTOClass has run                     *)
(***************************************************************************)
IdleFramework ==
  [nestAvailable |-> FALSE, lazyAvailable |-> FALSE, own |-> "none",
   fields |-> <<>>, lazy |-> "undefined", functions |-> <<>>,
   received |-> <<>>, intercepted |-> <<>>, attempted |-> <<>>]

\* the function TypeMetadataStorage inherits from its prototype
PrototypeAddField == "addClassFieldMetadata"

\* the function tryGetNestJSFields installs (lines 49-61)
CapturingAddField == "capturing"

\* TypeMetadataStorage.addClassFieldMetadata
EntryPoint(fw) == IF fw.own = "none" THEN PrototypeAddField ELSE fw.own

\* the fields stored for the schema class:
\* getClassFieldsByPredicate(f => f.target === dtoClass), mapped
ClassFields(fw) ==
  LET found == SelectSeq(fw.fields, LAMBDA f : f.target = "dto")
  IN  [k \in DOMAIN found |-> FieldInfoOf(found[k])]

\* a closure calls TypeMetadataStorage.addClassFieldMetadata(metadata): the
\* capturing function, when installed, keeps the fields of the schema class
\* and calls the function it replaced, which stores the metadata unless it
\* rejects it
addClassFieldMetadata(run, metadata, rejected) ==
  LET capturing == EntryPoint(run.fw) = CapturingAddField
      seen == IF capturing
              THEN [run EXCEPT
                      !.fw.intercepted = Append(@, metadata),
                      !.captured = IF metadata.target = "dto"
                                   THEN Append(@, FieldInfoOf(metadata))
                                   ELSE @]
              ELSE run
      got  == [seen EXCEPT !.fw.received = Append(@, metadata)]
  IN  IF rejected THEN got
      ELSE [got EXCEPT !.fw.fields = Append(@, metadata)]

RECURSIVE ForEachFunction(_, _, _)
\* functions.forEach(fn => { try { fn() } catch {} }) for the closures under
\* one key: a closure registers a field, registers one the framework
\* rejects, throws because it was consumed, or writes to the storage itself
ForEachFunction(run, fns, k) ==
  IF k > Len(fns) THEN run
  ELSE LET fn == fns[k]
       IN  ForEachFunction(
             CASE fn.kind = "consumed" -> run
               [] fn.kind = "direct" ->
                    [run EXCEPT !.fw.fields = Append(@, fn.metadata)]
               [] OTHER ->
                    addClassFieldMetadata(run, fn.metadata,
                                          fn.kind = "rejected"),
             fns, k + 1)

\* the restoring assignment placed after the loops, not in a finally block
RestoreUnlessThrown(fw, originalAddField, threw) ==
  IF threw THEN fw ELSE [fw EXCEPT !.own = originalAddField]

\* finally { TypeMetadataStorage.addClassFieldMetadata = originalAddField }
Restore(fw, originalAddField, threw) == [fw EXCEPT !.own = originalAddField]

\* tryGetNestJSFields(dtoClass): the fields (null is written <<>>) and the
\* storages as the call leaves them
tryGetNestJSFieldsIn(fw) ==
  IF ~fw.nestAvailable THEN [fields |-> <<>>, fw |-> fw]
  ELSE
    LET queried == [fw EXCEPT !.attempted = Append(@, "materialized")]
    IN  IF Len(ClassFields(fw)) > 0
        THEN [fields |-> ClassFields(fw), fw |-> queried]
        ELSE IF ~fw.lazyAvailable THEN [fields |-> <<>>, fw |-> queried]
        ELSE
          LET originalAddField == EntryPoint(queried)
              patched == [queried EXCEPT
                            !.own = CapturingAddField,
                            !.attempted = Append(@, "forced")]
              start  == [fw |-> patched, captured |-> <<>>]
              ofClass  == SelectSeq(fw.functions, LAMBDA fn : fn.key = "dto")
              ofFields == SelectSeq(fw.functions,
                                    LAMBDA fn : fn.key = "fieldSymbol")
              ran    == IF fw.lazy = "map"
                        THEN ForEachFunction(
                               ForEachFunction(start, ofClass, 1),
                               ofFields, 1)
                        ELSE start
              threw  == fw.lazy = "broken"
              after  == Restore(ran.fw, originalAddField, threw)
          IN  IF threw THEN [fields |-> <<>>, fw |-> after]
              ELSE IF Len(ran.captured) > 0
              THEN [fields |-> ran.captured, fw |-> after]
              ELSE [fields |-> ClassFields(after), fw |-> after]

\* analyzeDTOClass that scans for design:type metadata first
analyzeDTOClassScanFirst(fw, dto) ==
  LET scanned == scanForDecoratedFields(dto)
      nest    == tryGetNestJSFieldsIn([fw EXCEPT
                                         !.attempted = Append(@, "scan")])
  IN  IF Len(scanned) > 0
      THEN [fields |-> scanned,
            fw |-> [fw EXCEPT !.attempted = Append(@, "scan")]]
      ELSE nest

\* analyzeDTOClass(dtoClass) with the storages it leaves
analyzeDTOClassIn(fw, dto) ==
  LET nest == tryGetNestJSFieldsIn(fw)
  IN  IF Len(nest.fields) > 0 THEN nest
      ELSE [fields |-> scanForDecoratedFields(dto),
            fw |-> [nest.fw EXCEPT !.attempted = Append(@, "scan")]]

(***************************************************************************)
(* getter-mapper: getGetterMethods.  A class is its prototype chain,       *)
(* youngest first, each prototype the sequence of its own method names.    *)
(***************************************************************************)
RECURSIVE AddGetters(_, _)
AddGetters(methods, names) ==
  IF names = <<>> THEN methods
  ELSE AddGetters(IF isGetterMethod(Head(names))
                     /\ ~Includes(methods, Head(names))
                  THEN Append(methods, Head(names)) ELSE methods,
                  Tail(names))

RECURSIVE WalkChain(_, _)
WalkChain(methods, chain) ==
  IF chain = <<>> THEN methods
  ELSE WalkChain(AddGetters(methods, Head(chain)), Tail(chain))

getGetterMethods(chain) == WalkChain(<<>>, chain)

(***************************************************************************)
(* validator: validateClass.  The result is the metadata as the call left  *)
(* it, the warnings, and whether MissingGetterError was thrown (and for    *)
(* which field).                                                           *)
(***************************************************************************)
Put(map, key, value) == (key :> value) @@ map

MapValues(map) == {map[key] : key \in DOMAIN map}

\* the registration without the test of line 298: @Shared getters become
\* mappings too
RECURSIVE RegisterAllShared(_, _)
RegisterAllShared(meta, getterMethods) ==
  IF getterMethods = <<>> THEN meta
  ELSE LET getterName == Head(getterMethods)
       IN  RegisterAllShared(
             [meta EXCEPT !.fieldMappings =
                Put(@, getterToFieldName(getterName), getterName)],
             Tail(getterMethods))

\* validation skipped: every getter that is not @Shared becomes a mapping
RECURSIVE RegisterAll(_, _)
RegisterAll(meta, getterMethods) ==
  IF getterMethods = <<>> THEN meta
  ELSE LET getterName == Head(getterMethods)
       IN  RegisterAll(
             IF getterName \notin meta.sharedMethods
             THEN [meta EXCEPT !.fieldMappings =
                     Put(@, getterToFieldName(getterName), getterName)]
             ELSE meta,
             Tail(getterMethods))

\* the strict loop with the `else` of lines 343-347 lost: a satisfied
\* field is always added to optionalFields
RECURSIVE StrictLoopNoElse(_, _, _, _)
StrictLoopNoElse(dtoFields, k, getterMethods, acc) ==
  IF k > Len(dtoFields) THEN acc
  ELSE
    LET field            == dtoFields[k]
        explicitMappings == acc.meta.fieldMappings
        expectedGetter   == fieldToGetterName(field.name)
    IN  IF field.name \in DOMAIN explicitMappings
        THEN IF ~Includes(getterMethods, explicitMappings[field.name])
             THEN IF field.isRequired
                  THEN [acc EXCEPT !.threw = TRUE, !.errorField = field.name]
                  ELSE StrictLoopNoElse(dtoFields, k + 1, getterMethods,
                         [acc EXCEPT !.warnings = Append(@,
                            [kind |-> "explicit-not-found",
                             field |-> field.name,
                             getter |-> explicitMappings[field.name]])])
             ELSE StrictLoopNoElse(dtoFields, k + 1, getterMethods, acc)
        ELSE IF ~Includes(getterMethods, expectedGetter)
        THEN IF field.isRequired
             THEN [acc EXCEPT !.threw = TRUE, !.errorField = field.name]
             ELSE StrictLoopNoElse(dtoFields, k + 1, getterMethods,
                    [acc EXCEPT
                       !.warnings = Append(@,
                          [kind |-> "optional-no-getter",
                           field |-> field.name, getter |-> expectedGetter]),
                       !.meta.optionalFields = @ \cup {field.name}])
        ELSE StrictLoopNoElse(dtoFields, k + 1, getterMethods,
               [acc EXCEPT
                  !.meta.fieldMappings = Put(@, field.name, expectedGetter),
                  !.meta.requiredFields =
                     IF field.isRequired THEN @ \cup {field.name} ELSE @,
                  !.meta.optionalFields = @ \cup {field.name}])

\* the strict loop over the detected fields; explicitMappings is the very
\* map metadata.fieldMappings, so it sees the mappings the loop stores
RECURSIVE StrictLoop(_, _, _, _)
StrictLoop(dtoFields, k, getterMethods, acc) ==
  IF k > Len(dtoFields) THEN acc
  ELSE
    LET field            == dtoFields[k]
        explicitMappings == acc.meta.fieldMappings
        expectedGetter   == fieldToGetterName(field.name)
    IN  IF field.name \in DOMAIN explicitMappings
        THEN IF ~Includes(getterMethods, explicitMappings[field.name])
             THEN IF field.isRequired
                  THEN [acc EXCEPT !.threw = TRUE, !.errorField = field.name]
                  ELSE StrictLoop(dtoFields, k + 1, getterMethods,
                         [acc EXCEPT !.warnings = Append(@,
                            [kind |-> "explicit-not-found",
                             field |-> field.name,
                             getter |-> explicitMappings[field.name]])])
             ELSE StrictLoop(dtoFields, k + 1, getterMethods, acc)
        ELSE IF ~Includes(getterMethods, expectedGetter)
        THEN IF field.isRequired
             THEN [acc EXCEPT !.threw = TRUE, !.errorField = field.name]
             ELSE StrictLoop(dtoFields, k + 1, getterMethods,
                    [acc EXCEPT
                       !.warnings = Append(@,
                          [kind |-> "optional-no-getter",
                           field |-> field.name, getter |-> expectedGetter]),
                       !.meta.optionalFields = @ \cup {field.name}])
        ELSE StrictLoop(dtoFields, k + 1, getterMethods,
               [acc EXCEPT
                  !.meta.fieldMappings = Put(@, field.name, expectedGetter),
                  !.meta.requiredFields =
                     IF field.isRequired THEN @ \cup {field.name} ELSE @,
                  !.meta.optionalFields =
                     IF field.isRequired THEN @ ELSE @ \cup {field.name}])

\* the loop without the test for @Shared methods at line 359
RECURSIVE UnmatchedLoopNoShared(_, _, _, _)
UnmatchedLoopNoShared(dtoFields, getterMethods, meta, warnings) ==
  IF getterMethods = <<>> THEN warnings
  ELSE
    LET getterName           == Head(getterMethods)
        fieldName            == getterToFieldName(getterName)
        hasExplicitMapping   == getterName \in MapValues(meta.fieldMappings)
        hasConventionMapping == fieldName \in DOMAIN meta.fieldMappings
        matchesAnyField      ==
          \E k \in DOMAIN dtoFields : dtoFields[k].name = fieldName
    IN  UnmatchedLoopNoShared(dtoFields, Tail(getterMethods), meta,
          IF ~hasExplicitMapping /\ ~hasConventionMapping /\ ~matchesAnyField
          THEN Append(warnings,
                 [kind |-> "getter-no-field", field |-> fieldName,
                  getter |-> getterName])
          ELSE warnings)

\* the warnings about getters that match no DTO field
RECURSIVE UnmatchedLoop(_, _, _, _)
UnmatchedLoop(dtoFields, getterMethods, meta, warnings) ==
  IF getterMethods = <<>> THEN warnings
  ELSE
    LET getterName           == Head(getterMethods)
        fieldName            == getterToFieldName(getterName)
        hasExplicitMapping   == getterName \in MapValues(meta.fieldMappings)
        hasConventionMapping == fieldName \in DOMAIN meta.fieldMappings
        matchesAnyField      ==
          \E k \in DOMAIN dtoFields : dtoFields[k].name = fieldName
    IN  UnmatchedLoop(dtoFields, Tail(getterMethods), meta,
          IF /\ ~hasExplicitMapping /\ ~hasConventionMapping
             /\ ~matchesAnyField /\ getterName \notin meta.sharedMethods
          THEN Append(warnings,
                 [kind |-> "getter-no-field", field |-> fieldName,
                  getter |-> getterName])
          ELSE warnings)

validateClass(chain, metadata, dto) ==
  LET getterMethods == getGetterMethods(chain)
      dtoFields     == analyzeDTOClass(dto)
      start         == [meta |-> metadata, warnings |-> <<>>,
                        threw |-> FALSE, errorField |-> NoName]
  IN  IF Len(dtoFields) = 0
      THEN [start EXCEPT
              !.warnings = <<[kind |-> "validation-skipped",
                              field |-> NoName, getter |-> NoName]>>,
              !.meta = RegisterAll(metadata, getterMethods)]
      ELSE LET acc == StrictLoop(dtoFields, 1, getterMethods, start)
           IN  IF acc.threw THEN acc
               ELSE [acc EXCEPT !.warnings =
                       UnmatchedLoop(dtoFields, getterMethods, acc.meta, @)]

(***************************************************************************)
(* The @LazyQL decorator builds the metadata from the @Field and @Shared   *)
(* declarations of the class and hands it to validateClass.                *)
(***************************************************************************)
createMetadata(fieldMappings, sharedMethods) ==
  [fieldMappings |-> fieldMappings, sharedMethods |-> sharedMethods,
   requiredFields |-> {}, optionalFields |-> {}]

\* one call of validateClass on the class described by vInput
Validate ==
  /\ vResult = "pending"
  /\ LET r == validateClass(vInput.chain, vMeta, vInput.dto)
     IN  /\ vMeta' = r.meta
         /\ vWarnings' = r.warnings
         /\ vResult' = IF r.threw THEN "threw" ELSE "returned"
         /\ vError' = r.errorField
  /\ vFields' = analyzeDTOClass(vInput.dto)
  /\ UNCHANGED <<vInput, codec, lastOp, classOptions, nestedReturn, apiVars>>
  /\ UNCHANGED proxyVars

(***************************************************************************)
(* The classes and schema classes validation is run on.                    *)
(***************************************************************************)
M_status == F_status

\* own methods of the class, in declaration order; "status" is a method
\* that is no getter
OwnMethodLists ==
  {SelectSeq(<<M_getStatus, M_getEmail, M_getStatusValue, M_status>>,
             LAMBDA m : m \in S) :
     S \in SUBSET {M_getStatus, M_getEmail, M_getStatusValue, M_status}}

BaseMethodLists == {<<>>, <<M_getEmail>>}

Chains ==
  {IF base = <<>> THEN <<own>> ELSE <<own, base>> :
     own \in OwnMethodLists, base \in BaseMethodLists}

\* @Field declarations: none, or one field mapped to a method that the
\* class may have (getStatusValue) or never has (getGrandTotal)
FieldDeclarations ==
  {<<>>} \cup {f :> m : f \in {F_status, F_email},
                        m \in {M_getStatusValue, M_getGrandTotal}}

SharedDeclarations == {{}, {M_getStatusValue}}

\* what the framework storage holds about one field
StoredFields ==
  [name : {F_status, F_email}, schemaName : {NoName}, nullable : BOOLEAN]
    \cup {[name |-> F_zz, schemaName |-> F_email, nullable |-> FALSE]}

StoredLists ==
  UNION {[1..n -> StoredFields] : n \in 1..MaxFields}

NoDTO ==
  [nestAvailable |-> FALSE, lazyAvailable |-> FALSE, existing |-> <<>>,
   captured |-> <<>>, afterLoad |-> <<>>, ownNames |-> <<>>, design |-> {}]

DTOs ==
  \* the framework knows the fields, through one of its three sources
  {[NoDTO EXCEPT !.nestAvailable = TRUE, !.lazyAvailable = TRUE,
                 ![layer] = fl, !.design = d] :
     layer \in {"existing", "captured", "afterLoad"}, fl \in StoredLists,
     d \in {{}, {F_status, F_email}}}
  \cup
  \* the framework knows nothing: only the design:type metadata is left
  {[NoDTO EXCEPT !.nestAvailable = n, !.lazyAvailable = n,
                 !.ownNames = o, !.design = d] :
     n \in BOOLEAN, o \in {<<>>, <<F_status>>},
     d \in SUBSET {F_status, F_email}}
  \cup
  \* the framework is there but its lazy storage is not
  {[NoDTO EXCEPT !.nestAvailable = TRUE, !.afterLoad = fl, !.captured = fl] :
     fl \in StoredLists}

ValidateInputs ==
  [chain : Chains, mappings : FieldDeclarations,
   shared : SharedDeclarations, dto : DTOs]

\* the proxy specifications validate nothing
IdleInput ==
  [chain |-> <<>>, mappings |-> <<>>, shared |-> {}, dto |-> NoDTO]

\* how a call of the @LazyQL decorator ended, and how often it ran
\* validateClass and registerClass
NotDecorated ==
  [state |-> "none", error |-> NoName, validations |-> 0,
   registrations |-> 0, proxyClass |-> FALSE]

\* the model class was decorated when it was defined
AlreadyDecorated ==
  [state |-> "returned", error |-> NoName, validations |-> 1,
   registrations |-> 1, proxyClass |-> TRUE]

InitProxy ==
  /\ config = DefaultConfig
  /\ calls = [i \in Inst |-> [m \in PrototypeMethods |-> 0]]
  /\ completed = [i \in Inst |-> <<>>]
  /\ inFlight = [i \in Inst |-> <<>>]
  /\ handles = <<>>
  /\ reads = <<>>
  /\ hookCalls = <<>>
  /\ proxies = InitialProxies
  /\ older = [i \in Inst |-> <<>>]
  /\ debugLog = <<>>
  /\ held = <<>>
  /\ decorated = AlreadyDecorated

\* no structural operation made yet
IdleStruct == lastOp = [op |-> "none"]

\* the class as the tests build it by default: no option given
IdleNested ==
  /\ classOptions = <<>>
  /\ nestedReturn = Undefined
  /\ registry = InitialRegistry

\* no validation is running
IdleValidate ==
  /\ vInput = IdleInput
  /\ vMeta = createMetadata(<<>>, {})
  /\ vWarnings = <<>>
  /\ vResult = "idle"
  /\ vError = NoName
  /\ vFields = <<>>
  /\ framework = IdleFramework

\* no name is being converted
IdleCodec == codec = [stage |-> "idle"]

InitValidate ==
  /\ InitProxy
  /\ framework = IdleFramework
  /\ IdleCodec
  /\ IdleStruct
  /\ IdleNested
  /\ vInput \in ValidateInputs
  /\ vMeta = createMetadata(vInput.mappings, vInput.shared)
  /\ vWarnings = <<>>
  /\ vResult = "pending"
  /\ vError = NoName
  /\ vFields = <<>>

NextValidate == Validate

SpecValidate == InitValidate /\ [][NextValidate]_vars

(***************************************************************************)
(* The codec applied to a field name and then to the getter name it gave.  *)
(***************************************************************************)
CallFieldToGetterName ==
  /\ codec.stage = "field"
  /\ codec' = [codec EXCEPT !.stage = "getter",
                            !.getter = fieldToGetterName(codec.field)]
  /\ UNCHANGED <<proxyVars, validatorVars, lastOp, classOptions, nestedReturn,
                 apiVars>>

CallGetterToFieldName ==
  /\ codec.stage = "getter"
  /\ codec' = [codec EXCEPT !.stage = "back",
                            !.back = getterToFieldName(codec.getter)]
  /\ UNCHANGED <<proxyVars, validatorVars, lastOp, classOptions, nestedReturn,
                 apiVars>>

\* snake_case field names: lowercase words joined by "_"
CodecLetters == {"a", "g", "t"}

Words == UNION {[1..n -> CodecLetters] : n \in 1..MaxWordLen}

RECURSIVE JoinWords(_)
JoinWords(ws) ==
  IF Len(ws) = 1 THEN ws[1]
  ELSE ws[1] \o <<"_">> \o JoinWords(Tail(ws))

SnakeNames ==
  {JoinWords(ws) : ws \in UNION {[1..n -> Words] : n \in 1..MaxWords}}

InitCodec ==
  /\ InitProxy
  /\ IdleValidate
  /\ IdleStruct
  /\ IdleNested
  /\ \E f \in SnakeNames :
       codec = [stage |-> "field", field |-> f, getter |-> NoName,
                back |-> NoName]

NextCodec == CallFieldToGetterName \/ CallGetterToFieldName

SpecCodec == InitCodec /\ [][NextCodec]_vars

(***************************************************************************)
(* proxy-factory: the has and ownKeys traps, isLazyProxy and               *)
(* getOriginalInstance, called by a consumer; lastOp keeps what the last   *)
(* call returned.                                                          *)
(***************************************************************************)
RECURSIVE SeqOf(_)
\* the members of a Map or Set in iteration order
SeqOf(S) ==
  IF S = {} THEN <<>>
  ELSE LET x == CHOOSE y \in S : TRUE IN <<x>> \o SeqOf(S \ {x})

\* the two symbols under which wrapSharedMethods stores its maps on the
\* instance; a symbol is no string of characters
SHARED_CACHE   == <<"Symbol(lazyql:sharedCache)">>
PENDING_SHARED == <<"Symbol(lazyql:pendingShared)">>

\* Reflect.ownKeys(target): the string keys in the order they were set (the
\* data properties of the constructor, then the wrappers wrapSharedMethods
\* added), then the symbol keys
TargetOwnKeys(i) ==
  SeqOf(OwnProperties) \o SeqOf(WrappedShared)
    \o <<SHARED_CACHE, PENDING_SHARED>>

\* Reflect.has(target, prop): own or inherited
ReflectHas(i, prop) ==
  \/ Includes(TargetOwnKeys(i), prop)
  \/ prop \in PrototypeMethods

has(i, prop) ==
  IF IsFunction(ResolveGetter(ProxyMetadata, prop)) THEN TRUE
  ELSE ReflectHas(i, prop)

\* ownKeys that pushes to an array instead of adding to a Set
ownKeysArray(i) ==
  SeqOf(DOMAIN ProxyMetadata.fieldMappings)
    \o SeqOf(ProxyMetadata.optionalFields) \o TargetOwnKeys(i)

ownKeys(i) ==
  AddNames(AddNames(AddNames(<<>>,
                             SeqOf(DOMAIN ProxyMetadata.fieldMappings)),
                    SeqOf(ProxyMetadata.optionalFields)),
           TargetOwnKeys(i))

StructFrame ==
  UNCHANGED <<proxyVars, validatorVars, codec, classOptions, nestedReturn,
              apiVars>>

HasKey(i, prop) ==
  /\ lastOp' = [op |-> "has", inst |-> i, key |-> prop,
                result |-> has(i, prop)]
  /\ StructFrame

OwnKeys(i) ==
  /\ lastOp' = [op |-> "ownKeys", inst |-> i, result |-> ownKeys(i)]
  /\ StructFrame

IsLazyProxy(obj) ==
  /\ lastOp' = [op |-> "isLazyProxy", arg |-> obj,
                result |-> isLazyProxy(proxies, obj)]
  /\ StructFrame

GetOriginalInstance(obj) ==
  /\ lastOp' = [op |-> "getOriginalInstance", arg |-> obj,
                result |-> getOriginalInstance(proxies, obj)]
  /\ StructFrame

\* the keys a consumer asks for: fields with a conventional getter, an
\* explicit mapping, a @Shared getter, an optional field the instance holds
\* as a data property, an optional field it does not hold, a data property,
\* a method name, a wrapped method name, an unknown name
StructKeys ==
  {F_status, F_total, F_totals_data, F_note, F_memo, F_name, M_getStatus,
   M_getTotalsData, F_zz}

\* the values a consumer passes: proxies, their targets, a plain record,
\* an array, null, undefined, a string, a function
StructValues ==
  {[k |-> "proxy", id |-> 1], [k |-> "proxy", id |-> 3],
   Obj(ClassName, "A"), Obj("NestedModel", "n1"), Obj("Object", "o1"),
   [k |-> "array", items |-> <<>>], Null, Undefined,
   [k |-> "string", s |-> "text"],
   [k |-> "function", name |-> M_getStatus, own |-> FALSE]}

NextStruct ==
  \/ /\ Len(reads) < MaxStructReads
     /\ \E f \in StructKeys, kind \in Kinds : Read("A", f, kind)
  \/ \E h \in DOMAIN handles, ok \in BOOLEAN : SettleUnderlying(h, ok)
  \/ \E h \in DOMAIN handles : SharedSettled(h)
  \/ \E a \in DOMAIN reads : ReadSettled(a)
  \/ \E f \in StructKeys : HasKey("A", f)
  \/ OwnKeys("A")
  \/ \E v \in StructValues : IsLazyProxy(v)
  \/ \E v \in StructValues : GetOriginalInstance(v)

\* both instances constructed and wrapped once, nothing read yet
Init ==
  /\ InitProxy
  /\ IdleValidate
  /\ IdleCodec
  /\ IdleStruct
  /\ IdleNested

\* the fields whose read reaches a getter
GetterFields == {F_status, F_total, F_currency, F_totals_data}

\* one wrapped instance read by a consumer, configuration left at its defaults
Next ==
  \/ /\ Len(reads) < MaxReads
     /\ \E f \in ReadableFields, kind \in Kinds : Read("A", f, kind)
  \/ \E h \in DOMAIN handles, ok \in BOOLEAN : SettleUnderlying(h, ok)
  \/ \E h \in DOMAIN handles : SharedSettled(h)
  \/ \E a \in DOMAIN reads : ReadSettled(a)

Spec == Init /\ [][Next]_vars

\* one wrapped instance, with the global configuration changed at any time
NextHook ==
  \/ /\ Len(reads) < MaxHookReads
     /\ \E f \in GetterFields, kind \in Kinds : Read("A", f, kind)
  \/ \E h \in DOMAIN handles, ok \in BOOLEAN : SettleUnderlying(h, ok)
  \/ \E h \in DOMAIN handles : SharedSettled(h)
  \/ \E a \in DOMAIN reads : ReadSettled(a)
  \/ \E options \in ConfigureInputs : Configure(options)
  \/ resetConfig

SpecHook == Init /\ [][NextHook]_vars

\* two wrapped instances of the same class
NextIso ==
  \/ /\ Len(reads) < MaxIsoReads
     /\ \E i \in Inst, f \in ReadableFields, kind \in Kinds : Read(i, f, kind)
  \/ \E h \in DOMAIN handles, ok \in BOOLEAN : SettleUnderlying(h, ok)
  \/ \E h \in DOMAIN handles : SharedSettled(h)
  \/ \E a \in DOMAIN reads : ReadSettled(a)

SpecIso == Init /\ [][NextIso]_vars

\* one wrapped instance read, tested and enumerated by a consumer
SpecStruct == Init /\ [][NextStruct]_vars

\* what the options of @LazyQL hold: nestedProxy left out, false or true
ClassOptions ==
  {<<>>, ("nestedProxy" :> FALSE), ("nestedProxy" :> TRUE)}

\* what getNested may return, arrays apart: null, undefined, a string, a
\* plain record, a record without prototype, an instance of a class that
\* is not registered, an instance of the registered NestedModel, and the
\* proxy of one
NestedAtoms ==
  {Null, Undefined, [k |-> "string", s |-> "text"], Obj("Object", "o1"),
   Obj(NoConstructor, "d1"), Obj("PlainClass", "u1"),
   Obj("NestedModel", "n2"), [k |-> "proxy", id |-> 3]}

Arrays(S) ==
  {[k |-> "array", items |-> items] :
     items \in UNION {[1..n -> S] : n \in 0..MaxItems}}

\* an array of arrays is mapped by the same rule
NestedValues ==
  NestedAtoms \cup Arrays(NestedAtoms)
    \cup {[k |-> "array",
           items |-> <<[k |-> "array",
                        items |-> <<Obj("NestedModel", "n2")>>]>>]}

\* a class whose getNested returns one of these values, decorated with one
\* of the options
InitNested ==
  /\ InitProxy
  /\ IdleValidate
  /\ IdleCodec
  /\ IdleStruct
  /\ classOptions \in ClassOptions
  /\ nestedReturn \in NestedValues
  /\ registry = InitialRegistry

NextNested ==
  \/ /\ Len(reads) < MaxNestedReads
     /\ \E kind \in Kinds : Read("A", F_nested, kind)
  \/ \E h \in DOMAIN handles, ok \in BOOLEAN : SettleUnderlying(h, ok)
  \/ \E a \in DOMAIN reads : ReadSettled(a)

SpecNested == InitNested /\ [][NextNested]_vars

(***************************************************************************)
(* Vocabulary of the properties.                                           *)
(***************************************************************************)
\* this step is a new field read; NewRead is its record
IsNewRead == Len(reads') = Len(reads) + 1

NewRead == reads'[Len(reads')]

\* getter g is, or calls through `this`, the method m
Reaches(g, m) == g = m \/ Callee(g) = m

\* the methods a read of field f may run: the getter that the explicit
\* mapping or else the naming convention gives, and what that getter calls
MayRun(f) ==
  LET g == IF f \in DOMAIN ProxyMetadata.fieldMappings
           THEN ProxyMetadata.fieldMappings[f]
           ELSE fieldToGetterName(f)
  IN  {g, Callee(g)} \ {NoName}

\* the numbers of the runs of m on i that failed (threw or rejected)
FailedRuns(i, m) ==
  {n \in 1..calls[i][m] :
     \/ \E h \in DOMAIN handles :
          /\ handles[h].inst = i /\ handles[h].method = m /\ handles[h].n = n
          /\ handles[h].state \in {"p0_err", "err"}
     \/ \E a \in DOMAIN reads : reads[a].inst = i /\ reads[a].raw = Err(m, n)}

\* the value a getter's result was derived from
Underlying(v) == IF v.k = "derived" THEN v.of ELSE v

(***************************************************************************)
(* C1  Laziness: a read of field f runs only the getter f resolves to and  *)
(* what that getter calls; in no step does any other method of any         *)
(* instance run, and methods run only in steps that are reads.             *)
(***************************************************************************)
C1_Laziness ==
  [][\A i \in Inst, m \in PrototypeMethods :
       calls'[i][m] # calls[i][m] =>
         /\ IsNewRead
         /\ NewRead.inst = i
         /\ m \in MayRun(NewRead.field)]_vars

\* status was read, its getter ran once, and no other method ever ran
C1_Witness ==
  /\ \E a \in DOMAIN reads : reads[a].field = F_status /\ reads[a].invoked
  /\ Len(reads) = MaxReads
  /\ calls["A"][M_getStatus] >= 1
  /\ \A m \in PrototypeMethods \ {M_getStatus} : calls["A"][m] = 0

(***************************************************************************)
(* C2  Collapsing: while a promise of shared method m is in the pending    *)
(* map of an instance, no step runs the original m on that instance, and   *)
(* every read that reaches m in that time gets that same promise; at most  *)
(* one promise of m per instance is unsettled, and it is the one in the    *)
(* pending map.                                                            *)
(***************************************************************************)
C2_Collapsing ==
  /\ [](\A i \in Inst, m \in WrappedShared :
          LET open == {h \in DOMAIN handles :
                         /\ handles[h].inst = i /\ handles[h].method = m
                         /\ handles[h].state \in {"pending", "p0_ok", "p0_err"}}
          IN  /\ Cardinality(open) <= 1
              /\ open = IF m \in DOMAIN inFlight[i]
                        THEN {inFlight[i][m]} ELSE {})
  /\ [][\A i \in Inst, m \in WrappedShared :
          m \in DOMAIN inFlight[i] =>
            /\ calls'[i][m] = calls[i][m]
            /\ (IsNewRead /\ NewRead.inst = i /\ Reaches(NewRead.getter, m)) =>
                 /\ NewRead.hit = "pending"
                 /\ NewRead.src = inFlight[i][m]
                 /\ NewRead.state = "pending"]_vars

\* three reads, by two different fields, wait on the one promise of the one
\* run of the shared method
C2_Witness ==
  /\ calls["A"][M_getTotalsData] = 1
  /\ M_getTotalsData \in DOMAIN inFlight["A"]
  /\ Len(reads) = 3
  /\ \A a \in DOMAIN reads :
       /\ reads[a].src = inFlight["A"][M_getTotalsData]
       /\ reads[a].state = "pending"
  /\ \E a, b \in DOMAIN reads : reads[a].field # reads[b].field

(***************************************************************************)
(* C3  Memoization of success: once shared method m has produced a result  *)
(* on an instance (a synchronous return, or its promise fulfilled and the  *)
(* wrapper's callback run), the value is in `completed` and m is not in    *)
(* `inFlight`; from then on the entry never changes, the original m never  *)
(* runs again on that instance, and every read reaching m returns the      *)
(* cached value.                                                           *)
(***************************************************************************)
C3_MemoizedSuccess ==
  /\ [](/\ \A h \in DOMAIN handles :
             (handles[h].shared /\ handles[h].state = "ok") =>
               LET i == handles[h].inst
                   m == handles[h].method
               IN  /\ m \in DOMAIN completed[i]
                   /\ completed[i][m] = Val(m, handles[h].n)
                   /\ m \notin DOMAIN inFlight[i]
        /\ \A a \in DOMAIN reads, m \in WrappedShared :
             (/\ Reaches(reads[a].getter, m) /\ reads[a].hit = "miss"
              /\ reads[a].src = 0 /\ ~IsError(reads[a].raw)) =>
               /\ m \in DOMAIN completed[reads[a].inst]
               /\ Underlying(reads[a].raw) = completed[reads[a].inst][m]
               /\ m \notin DOMAIN inFlight[reads[a].inst])
  /\ [][\A i \in Inst, m \in WrappedShared :
          m \in DOMAIN completed[i] =>
            /\ m \in DOMAIN completed'[i]
            /\ completed'[i][m] = completed[i][m]
            /\ m \notin DOMAIN inFlight'[i]
            /\ calls'[i][m] = calls[i][m]
            /\ (IsNewRead /\ NewRead.inst = i /\ Reaches(NewRead.getter, m)) =>
                 /\ NewRead.hit = "cache"
                 /\ NewRead.state = "returned"
                 /\ Underlying(NewRead.raw) = completed[i][m]]_vars

\* the promise of the first run was fulfilled, and two later reads returned
\* the cached value of that run
C3_Witness ==
  /\ calls["A"][M_getTotalsData] = 1
  /\ \E h \in DOMAIN handles : handles[h].shared /\ handles[h].state = "ok"
  /\ \E a, b \in DOMAIN reads :
       /\ a # b
       /\ reads[a].hit = "cache" /\ reads[b].hit = "cache"
       /\ Underlying(reads[a].raw) = completed["A"][M_getTotalsData]
       /\ Underlying(reads[b].raw) = completed["A"][M_getTotalsData]

(***************************************************************************)
(* C4  Failure is not memoized: when the wrapper's callback runs for a     *)
(* rejected promise of m, m leaves `inFlight` and does not enter           *)
(* `completed`; a read reaching m between the rejection and that callback  *)
(* still gets the rejected promise and runs nothing; a read reaching m     *)
(* after it runs the original m again.                                     *)
(***************************************************************************)
C4_FailureNotMemoized ==
  [][/\ \A h \in DOMAIN handles :
          (handles[h].shared /\ handles[h].state = "p0_err") =>
            LET i == handles[h].inst
                m == handles[h].method
            IN  /\ handles'[h].state = "err" =>
                     /\ m \notin DOMAIN inFlight'[i]
                     /\ m \notin DOMAIN completed'[i]
                /\ (IsNewRead /\ NewRead.inst = i
                    /\ Reaches(NewRead.getter, m)) =>
                     /\ NewRead.src = h
                     /\ calls'[i][m] = calls[i][m]
     /\ \A i \in Inst, m \in WrappedShared :
          (/\ \E h \in DOMAIN handles :
                /\ handles[h].inst = i /\ handles[h].method = m
                /\ handles[h].state = "err"
           /\ m \notin DOMAIN completed[i]
           /\ m \notin DOMAIN inFlight[i]
           /\ IsNewRead /\ NewRead.inst = i /\ Reaches(NewRead.getter, m)) =>
            /\ NewRead.hit = "miss"
            /\ calls'[i][m] = calls[i][m] + 1]_vars

\* two reads shared the promise that was rejected; after the callback a
\* third read ran the method a second time
C4_Witness ==
  /\ calls["A"][M_getTotalsData] = 2
  /\ \E h \in DOMAIN handles :
       /\ handles[h].shared /\ handles[h].state = "err"
       /\ \E a, b \in DOMAIN reads :
            /\ a # b
            /\ reads[a].src = h /\ reads[b].src = h
            /\ reads[b].hit = "pending"
       /\ \E a \in DOMAIN reads :
            /\ reads[a].hit = "miss"
            /\ reads[a].src # h
            /\ Reaches(reads[a].getter, M_getTotalsData)
            /\ a = Len(reads)

(***************************************************************************)
(* C5  Per-instance cache isolation: a step acting on one instance (a read *)
(* of it, or the settlement of one of its promises or reads) leaves the    *)
(* `completed` and `inFlight` maps and the call counters of every other    *)
(* instance unchanged; and on each instance whose shared method never      *)
(* failed, the original ran exactly once if any read reached it, whatever  *)
(* happened on the other instance.                                         *)
(***************************************************************************)
ActsOn(i) ==
  \/ IsNewRead /\ NewRead.inst = i
  \/ \E h \in DOMAIN handles : handles[h].inst = i /\ handles'[h] # handles[h]
  \/ \E a \in DOMAIN reads : reads[a].inst = i /\ reads'[a] # reads[a]

C5_InstanceIsolation ==
  /\ [][\A i \in Inst : ActsOn(i) =>
          \A j \in Inst \ {i} :
            /\ completed'[j] = completed[j]
            /\ inFlight'[j] = inFlight[j]
            /\ calls'[j] = calls[j]]_vars
  /\ [](\A i \in Inst, m \in WrappedShared :
          FailedRuns(i, m) = {} =>
            calls[i][m] =
              IF \E a \in DOMAIN reads :
                   reads[a].inst = i /\ Reaches(reads[a].getter, m)
              THEN 1 ELSE 0)

\* both instances read the shared computation; each ran its own method once
\* and holds its own cached value
C5_Witness ==
  /\ \A i \in Inst :
       /\ calls[i][M_getTotalsData] = 1
       /\ M_getTotalsData \in DOMAIN completed[i]
       /\ \E a \in DOMAIN reads :
            reads[a].inst = i /\ reads[a].getter = M_getTotalsData
  /\ Len(reads) = 2

(***************************************************************************)
(* C6  One cache for internal and external calls: on every instance the    *)
(* number of runs of the original shared method is the number of its       *)
(* failed runs plus one if it has a cached value or an unsettled promise,  *)
(* however the reads reaching it are mixed between the field that routes   *)
(* to it and the getters that call it as this.m(); and all of them that    *)
(* got a value got the cached one.  The shared method is inherited from    *)
(* the base class.                                                         *)
(***************************************************************************)
C6_OneCache ==
  \A i \in Inst, m \in WrappedShared :
    /\ calls[i][m] =
         Cardinality(FailedRuns(i, m))
         + (IF \/ m \in DOMAIN completed[i]
               \/ /\ m \in DOMAIN inFlight[i]
                  /\ handles[inFlight[i][m]].state \in {"pending", "p0_ok"}
            THEN 1 ELSE 0)
    /\ \A a \in DOMAIN reads :
         (/\ reads[a].inst = i /\ Reaches(reads[a].getter, m)
          /\ reads[a].raw # NoValue /\ ~IsError(reads[a].raw)) =>
           /\ m \in DOMAIN completed[i]
           /\ Underlying(reads[a].raw) = completed[i][m]

\* an internal call started the computation, the routed field and a second
\* getter joined it, and the original ran once
C6_Witness ==
  /\ M_getTotalsData \in ModelChain[2].own
  /\ calls["A"][M_getTotalsData] = 1
  /\ Len(reads) = 3
  /\ reads[1].getter = M_getGrandTotal /\ reads[1].hit = "miss"
  /\ reads[2].getter = M_getTotalsData /\ reads[2].hit = "pending"
  /\ reads[3].getter = M_getCurrency /\ reads[3].hit = "cache"
  /\ \A a \in DOMAIN reads :
       Underlying(reads[a].raw) = completed["A"][M_getTotalsData]

(***************************************************************************)
(* C7  Error routing outcome: every read whose computation failed (threw,  *)
(* or its promise rejected and the read's callback ran) was routed, and    *)
(* its outcome follows the hook in force at that moment: no hook, the      *)
(* original error is thrown (rejected); a hook returning a new error, that *)
(* error is thrown (rejected); a hook returning null, the read returns     *)
(* (resolves to) null.                                                     *)
(***************************************************************************)
C7_ErrorRouting ==
  \A a \in DOMAIN reads :
    LET rd    == reads[a]
        fails == IF rd.src = 0 THEN "threw" ELSE "rejected"
        gives == IF rd.src = 0 THEN "returned" ELSE "resolved"
    IN  /\ (rd.raw # NoValue /\ IsError(rd.raw)) <=> rd.routed # "n/a"
        /\ rd.routed = "null" =>
             rd.state = fails /\ rd.result = rd.raw
        /\ rd.routed = "transform" =>
             /\ rd.state = fails
             /\ rd.result = [k |-> "replaced", field |-> rd.field,
                             of |-> rd.raw]
        /\ rd.routed = "suppress" =>
             rd.state = gives /\ rd.result = Null

\* one asynchronous read resolved to null under a suppressing hook, one
\* synchronous read threw the hook's replacement
C7_Witness ==
  \E a, b \in DOMAIN reads :
    /\ reads[a].routed = "suppress" /\ reads[a].src # 0
    /\ reads[a].state = "resolved" /\ reads[a].result = Null
    /\ reads[b].routed = "transform" /\ reads[b].src = 0
    /\ reads[b].state = "threw" /\ reads[b].result.k = "replaced"

(***************************************************************************)
(* C8  The hook runs once per failing access: the hook log holds exactly   *)
(* one entry for each read that failed while a hook was configured, with   *)
(* that read's field name, getter name and error, and nothing else, also   *)
(* when several reads failed with the one rejection of a shared method.    *)
(***************************************************************************)
C8_HookPerAccess ==
  LET routed == {a \in DOMAIN reads : reads[a].routed \in {"transform", "suppress"}}
  IN  /\ Len(hookCalls) = Cardinality(routed)
      /\ \A a \in routed :
           \E k \in DOMAIN hookCalls :
             /\ hookCalls[k].access = a
             /\ hookCalls[k].className = ClassName
             /\ hookCalls[k].fieldName = reads[a].field
             /\ hookCalls[k].getterName = reads[a].getter
             /\ hookCalls[k].error = reads[a].raw
             /\ \A k2 \in DOMAIN hookCalls :
                  hookCalls[k2].access = a => k2 = k

\* the shared method ran once and rejected; the reads of two fields that
\* depend on it each got their own hook call
C8_Witness ==
  /\ calls["A"][M_getTotalsData] = 1
  /\ Len(hookCalls) = 2
  /\ Len(reads) = 2
  /\ reads[1].src = reads[2].src
  /\ reads[1].src # 0
  /\ reads[1].raw = reads[2].raw
  /\ hookCalls[1].fieldName # hookCalls[2].fieldName
  /\ hookCalls[1].getterName # hookCalls[2].getterName
  /\ hookCalls[1].error = hookCalls[2].error

(***************************************************************************)
(* Vocabulary of the validation properties.                                *)
(***************************************************************************)
\* the strategy that produced the discovered fields: the framework's
\* metadata is of high confidence, the design:type scan of low confidence
DetectionMethod(dto) ==
  IF Len(tryGetNestJSFields(dto)) > 0 THEN "nestjs-graphql"
  ELSE IF Len(scanForDecoratedFields(dto)) > 0 THEN "design-type"
  ELSE "none"

Discovered == analyzeDTOClass(vInput.dto)

MethodExists(m) == Includes(getGetterMethods(vInput.chain), m)

\* every method name a class has, own or inherited
PrototypeOf(chain) ==
  UNION {{chain[l][k] : k \in DOMAIN chain[l]} : l \in DOMAIN chain}

\* the method that has to exist for the field: the declared override's
\* method, else the conventional one
SatisfyingMethod(f) ==
  IF f \in DOMAIN vInput.mappings THEN vInput.mappings[f]
  ELSE fieldToGetterName(f)

Unsatisfied(f) == ~MethodExists(SatisfyingMethod(f))

Validated == vResult \in {"returned", "threw"}

(***************************************************************************)
(* C9.  validateClass raises MissingGetterError exactly when some          *)
(* discovered field that is required and of high confidence (found in the  *)
(* framework's metadata) has no existing method satisfying it: the method  *)
(* of its explicit override when one is declared, otherwise its            *)
(* conventional getter.  When every such field is satisfied the call       *)
(* returns normally.                                                       *)
(***************************************************************************)
C9_HardErrorIffHighConfidenceUnsatisfied ==
  Validated =>
    (vResult = "threw" <=>
       /\ DetectionMethod(vInput.dto) = "nestjs-graphql"
       /\ \E k \in DOMAIN Discovered :
            Discovered[k].isRequired /\ Unsatisfied(Discovered[k].name))

(***************************************************************************)
(* C10.  Fields found by the design:type scan (low confidence) never       *)
(* cause the hard error: for every such field without a getter,            *)
(* validateClass does not throw, emits a warning about the field, and      *)
(* puts the field in optionalFields and not in requiredFields, whatever    *)
(* its required flag.                                                      *)
(***************************************************************************)
C10_LowConfidenceNeverFatal ==
  (Validated /\ DetectionMethod(vInput.dto) = "design-type") =>
    /\ vResult = "returned"
    /\ \A k \in DOMAIN Discovered :
         Unsatisfied(Discovered[k].name) =>
           /\ \E w \in DOMAIN vWarnings :
                vWarnings[w].field = Discovered[k].name
           /\ Discovered[k].name \in vMeta.optionalFields
           /\ Discovered[k].name \notin vMeta.requiredFields

(***************************************************************************)
(* C11.  Every field the design:type scan produces has isRequired = true   *)
(* and is marked with the detection method design-type (low confidence);   *)
(* every field produced from the framework's metadata, materialized or     *)
(* captured, has isRequired equal to the negation of the framework's       *)
(* nullable flag and is marked nestjs-graphql (high confidence).           *)
(***************************************************************************)
\* reading a property of a JavaScript object: undefined when it has none
GetProp(obj, key) == IF key \in DOMAIN obj THEN obj[key] ELSE "undefined"

\* the framework source the fields were taken from
FrameworkSource(dto) ==
  IF Len(dto.existing) > 0 THEN dto.existing
  ELSE IF Len(dto.captured) > 0 THEN dto.captured
  ELSE dto.afterLoad

C11_FieldsCarryDetectionMethod ==
  Validated =>
    /\ DetectionMethod(vInput.dto) = "design-type" =>
         \A k \in DOMAIN vFields :
           /\ vFields[k].isRequired = TRUE
           /\ GetProp(vFields[k], "detectionMethod") = "design-type"
    /\ DetectionMethod(vInput.dto) = "nestjs-graphql" =>
         /\ Len(vFields) = Len(FrameworkSource(vInput.dto))
         /\ \A k \in DOMAIN vFields :
              /\ vFields[k].isRequired = ~FrameworkSource(vInput.dto)[k].nullable
              /\ GetProp(vFields[k], "detectionMethod") = "nestjs-graphql"

(***************************************************************************)
(* C12.  Whenever validateClass completes, whatever the discovered fields  *)
(* (required or optional, with or without override, getter present or      *)
(* missing, names repeated or not), requiredFields and optionalFields      *)
(* have no field in common.                                                *)
(***************************************************************************)
C12_RequiredOptionalDisjoint ==
  vResult = "returned" =>
    vMeta.requiredFields \cap vMeta.optionalFields = {}

\* a completed validation that classified a field discovered twice, once
\* as required and once as optional
C12_Witness ==
  /\ vResult = "returned"
  /\ \E j, k \in DOMAIN vFields :
       /\ j < k
       /\ vFields[j].name = vFields[k].name
       /\ vFields[j].isRequired # vFields[k].isRequired
       /\ vFields[j].name \in vMeta.requiredFields \cup vMeta.optionalFields

(***************************************************************************)
(* C20.  When analyzeDTOClass finds no field, validateClass throws         *)
(* nothing, returns exactly one warning (validation skipped), maps the     *)
(* reverse-converted field name to the getter for every getter of the      *)
(* class, inherited ones included, that is not @Shared, adds no mapping    *)
(* for a @Shared method, and leaves requiredFields and optionalFields      *)
(* empty.                                                                  *)
(***************************************************************************)
\* the getters of the class that are not @Shared
PlainGetters ==
  {g \in PrototypeOf(vInput.chain) :
     isGetterMethod(g) /\ g \notin vInput.shared}

C20_EmptyDiscoveryFallback ==
  (Validated /\ vFields = <<>>) =>
    /\ vResult = "returned"
    /\ Len(vWarnings) = 1
    /\ vWarnings[1].kind = "validation-skipped"
    /\ DOMAIN vMeta.fieldMappings =
         DOMAIN vInput.mappings \cup {getterToFieldName(g) : g \in PlainGetters}
    /\ \A g \in PlainGetters : vMeta.fieldMappings[getterToFieldName(g)] = g
    /\ \A f \in DOMAIN vMeta.fieldMappings :
         (\A g \in PlainGetters : f # getterToFieldName(g)) =>
           vMeta.fieldMappings[f] = vInput.mappings[f]
    /\ vMeta.requiredFields = {}
    /\ vMeta.optionalFields = {}

\* a skipped validation of a class with an inherited getter, an own getter
\* and a @Shared getter
C20_Witness ==
  /\ Validated /\ vFields = <<>>
  /\ Len(vInput.chain) = 2
  /\ \E g \in PlainGetters :
       ~Includes(vInput.chain[1], g) /\ Includes(vInput.chain[2], g)
  /\ \E g \in PlainGetters : Includes(vInput.chain[1], g)
  /\ \E g \in vInput.shared : Includes(vInput.chain[1], g)

(***************************************************************************)
(* C13.  Codec round trip: for every field name made of one or more        *)
(* non-empty lowercase words joined by "_",                                *)
(* getterToFieldName(fieldToGetterName(f)) = f.                            *)
(***************************************************************************)
C13_CodecRoundTrip ==
  codec.stage = "back" => codec.back = codec.field

\* a name of three words, one of them a single letter, taken there and back
C13_Witness ==
  /\ codec.stage = "back"
  /\ Len(SelectSeq(codec.field, LAMBDA c : c = "_")) = 2
  /\ \E k \in 2..(Len(codec.field) - 1) :
       codec.field[k - 1] = "_" /\ codec.field[k + 1] = "_"
  /\ codec.getter # codec.field

(***************************************************************************)
(* C14.  Resolution order of a read of field f on a proxy: f resolves to   *)
(* its explicit mapping if it has one, otherwise to the conventional       *)
(* getter name; if the instance has that method it is invoked and the      *)
(* read yields its result; otherwise, if f is in optionalFields, the read  *)
(* yields null; otherwise it yields the instance's property f when that    *)
(* is defined and undefined when it is not.                                *)
(***************************************************************************)
\* the outcome of a read is what the method it resolved to produced
ResultOf(rd, g) ==
  /\ rd.invoked
  /\ rd.state \in {"returned", "resolved"} =>
       ((rd.result.k \in {"value", "derived"} /\ rd.result.by = g)
          \/ (rd.result = Null /\ IsError(rd.raw)))
  /\ rd.state \in {"threw", "rejected"} =>
       (IsError(rd.result) /\ Underlying(rd.result).by \in {g, Callee(g)})

C15_UnwrapIsWrapped ==
  /\ [](/\ lastOp.op = "isLazyProxy" =>
             (lastOp.result <=> lastOp.arg.k = "proxy")
        /\ lastOp.op = "getOriginalInstance" =>
             lastOp.result = IF lastOp.arg.k = "proxy"
                             THEN proxies[lastOp.arg.id].target
                             ELSE lastOp.arg)
  /\ [][lastOp'.op \in {"isLazyProxy", "getOriginalInstance"}
          /\ UNCHANGED <<reads, handles>>
        => UNCHANGED <<calls, completed, inFlight, proxies>>]_vars

\* the proxy of instance A is unwrapped while A holds a memoized result
C15_Witness ==
  /\ lastOp.op = "getOriginalInstance"
  /\ lastOp.arg = [k |-> "proxy", id |-> 1]
  /\ lastOp.result = Obj(ClassName, "A")
  /\ M_getTotalsData \in DOMAIN completed["A"]

(***************************************************************************)
(* C16.  The keys enumerated on a proxy are exactly the field names of     *)
(* fieldMappings, the names in optionalFields and the own keys of the      *)
(* underlying instance (its data properties, the wrappers of its @Shared   *)
(* methods and the two symbols of its maps), and no key is listed twice.   *)
(***************************************************************************)
C16_KeyEnumeration ==
  lastOp.op = "ownKeys" =>
    LET keys == lastOp.result
    IN  /\ {keys[n] : n \in DOMAIN keys} =
             DOMAIN ProxyMetadata.fieldMappings
               \cup ProxyMetadata.optionalFields
               \cup OwnProperties \cup WrappedShared
               \cup {SHARED_CACHE, PENDING_SHARED}
        /\ \A n, o \in DOMAIN keys : keys[n] = keys[o] => n = o

\* the keys were listed for an instance that holds an optional field as a
\* data property of its own: the name is in two of the three sources
C16_Witness ==
  /\ lastOp.op = "ownKeys"
  /\ F_note \in ProxyMetadata.optionalFields \cap OwnProperties
  /\ Includes(lastOp.result, F_note)
  /\ Includes(lastOp.result, F_total)
  /\ Includes(lastOp.result, M_getTotalsData)
  /\ Includes(lastOp.result, SHARED_CACHE)

(***************************************************************************)
(* C17.  Every string key that the enumeration of a proxy's keys yields    *)
(* passes the membership test `key in proxy`.                              *)
(***************************************************************************)
C17_EnumeratedKeysAreMembers ==
  lastOp.op = "has" /\ Includes(ownKeys(lastOp.inst), lastOp.key)
    => lastOp.result

(***************************************************************************)
(* Vocabulary of the nested-wrapping properties.                           *)
(***************************************************************************)
\* the reads whose getter produced a value, at once or through a promise
ValueReads ==
  {a \in DOMAIN reads :
     reads[a].state # "pending" /\ reads[a].invoked /\ ~IsError(reads[a].raw)}

RECURSIVE FollowsRule(_, _)
\* res is what the rule makes of raw: an array of the same length whose
\* members follow the rule, a proxy of raw made with the metadata and the
\* name of raw's constructor, or raw itself
FollowsRule(raw, res) ==
  IF raw.k = "array"
  THEN /\ res.k = "array"
       /\ Len(res.items) = Len(raw.items)
       /\ \A n \in DOMAIN raw.items : FollowsRule(raw.items[n], res.items[n])
  ELSE IF raw.k = "object" /\ raw.cls \in DOMAIN Registry
  THEN /\ res.k = "proxy"
       /\ proxies[res.id].target = raw
       /\ proxies[res.id].metaOf = raw.cls
       /\ proxies[res.id].className = raw.cls
  ELSE res = raw

(***************************************************************************)
(* C18.  With nestedProxy enabled, a read whose getter returns a value     *)
(* that is already a proxy yields that very proxy, at once or through a    *)
(* promise, and no proxy is made.                                          *)
(***************************************************************************)
C18_IdempotentNestedWrapping ==
  NestedProxyOption /\ nestedReturn.k = "proxy" =>
    /\ \A a \in ValueReads :
         /\ reads[a].state \in {"returned", "resolved"}
         /\ reads[a].result = nestedReturn
    /\ proxies = InitialProxies

\* the same proxy was returned by getNested twice, once through a promise
C18_Witness ==
  /\ NestedProxyOption
  /\ nestedReturn = [k |-> "proxy", id |-> 3]
  /\ \E a, b \in ValueReads :
       /\ reads[a].state = "returned" /\ reads[b].state = "resolved"
       /\ reads[a].result = [k |-> "proxy", id |-> 3]
       /\ reads[b].result = [k |-> "proxy", id |-> 3]

(***************************************************************************)
(* C19.  A read whose getter produced a value, at once or through a        *)
(* promise, yields: with nestedProxy unset or false, that value; with      *)
(* nestedProxy enabled, an array mapped member by member by the same rule, *)
(* a proxy made with the constructor's own metadata and name for an        *)
(* instance of a registered class, and the value itself for null, plain    *)
(* records and instances of classes that are not registered.               *)
(***************************************************************************)
C19_NestedWrappingRule ==
  \A a \in ValueReads :
    /\ reads[a].state \in {"returned", "resolved"}
    /\ IF NestedProxyOption
       THEN FollowsRule(reads[a].raw, reads[a].result)
       ELSE reads[a].result = reads[a].raw

(***************************************************************************)
(* C21.  Every explicit override (field f -> method m) declared before     *)
(* validation is still there when validateClass returns:                   *)
(* fieldMappings[f] = m, on the strict path and on the path taken when no  *)
(* field was discovered, whatever other getters the class has.             *)
(***************************************************************************)
C21_ExplicitOverridesSurvive ==
  vResult = "returned" =>
    \A f \in DOMAIN vInput.mappings :
      /\ f \in DOMAIN vMeta.fieldMappings
      /\ vMeta.fieldMappings[f] = vInput.mappings[f]

\* validateClass returned after the strict loop: fields were discovered and
\* no MissingGetterError was thrown
StrictReturned == vResult = "returned" /\ vFields # <<>>

(***************************************************************************)
(* C28.  When fields were discovered and validateClass returns, every      *)
(* discovered field is in exactly one of requiredFields and                *)
(* optionalFields, the fields satisfied through an explicit override       *)
(* included.                                                               *)
(***************************************************************************)
C28_DiscoveredFieldsClassified ==
  StrictReturned =>
    \A k \in DOMAIN vFields :
      (vFields[k].name \in vMeta.requiredFields)
        # (vFields[k].name \in vMeta.optionalFields)

(***************************************************************************)
(* C29.  When fields were discovered and validateClass returns, every      *)
(* entry of fieldMappings names a method the class has, the entries that   *)
(* are explicit overrides of optional fields or of fields the schema does  *)
(* not declare included.                                                   *)
(***************************************************************************)
C29_MappingsNameExistingMethods ==
  StrictReturned =>
    \A f \in DOMAIN vMeta.fieldMappings :
      vMeta.fieldMappings[f] \in PrototypeOf(vInput.chain)

(***************************************************************************)
(* C30.  When fields were discovered and validateClass returns, it has     *)
(* warned that a getter matches no field for exactly the getters that are  *)
(* neither the method of an entry of the resulting fieldMappings nor       *)
(* @Shared.                                                                *)
(***************************************************************************)
C30_UnmatchedGetterWarnings ==
  StrictReturned =>
    \A g \in PrototypeOf(vInput.chain) :
      isGetterMethod(g) =>
        ((\E w \in DOMAIN vWarnings :
            vWarnings[w].kind = "getter-no-field" /\ vWarnings[w].getter = g)
         <=> (g \notin MapValues(vMeta.fieldMappings)
                /\ g \notin vMeta.sharedMethods))

\* validateClass warned that getter g matches no field
WarnedUnmatched(g) ==
  \E w \in DOMAIN vWarnings :
    vWarnings[w].kind = "getter-no-field" /\ vWarnings[w].getter = g

\* C30 as amended: the warning is emitted for exactly the getters that are
\* not the method of an entry of the resulting fieldMappings, whose field
\* name (by the reverse conversion) neither has an entry there nor is a
\* discovered field, and that are not @Shared
C30_UnmatchedGetterWarningsAmended ==
  StrictReturned =>
    \A g \in PrototypeOf(vInput.chain) :
      isGetterMethod(g) =>
        (WarnedUnmatched(g)
           <=> (/\ g \notin MapValues(vMeta.fieldMappings)
                /\ getterToFieldName(g) \notin DOMAIN vMeta.fieldMappings
                /\ \A k \in DOMAIN vFields :
                     vFields[k].name # getterToFieldName(g)
                /\ g \notin vMeta.sharedMethods))

\* a class with a getter that was warned about, a getter left without
\* warning because its field is overridden to another method, and a
\* @Shared getter that is the method of no entry
C30_Witness ==
  /\ StrictReturned
  /\ \E g \in PrototypeOf(vInput.chain) : WarnedUnmatched(g)
  /\ \E g \in PrototypeOf(vInput.chain) :
       /\ isGetterMethod(g) /\ ~WarnedUnmatched(g)
       /\ g \notin MapValues(vMeta.fieldMappings)
       /\ g \notin vMeta.sharedMethods
  /\ \E g \in PrototypeOf(vInput.chain) \cap vMeta.sharedMethods :
       g \notin MapValues(vMeta.fieldMappings)

(***************************************************************************)
(* C26.  A read whose getter returns undefined, at once or through a       *)
(* promise, yields null.                                                   *)
(***************************************************************************)
C26_UndefinedBecomesNull ==
  \A a \in ValueReads :
    reads[a].raw = Undefined => reads[a].result = Null

(***************************************************************************)
(* Vocabulary of the per-access failure property.                          *)
(***************************************************************************)
\* a getter that is not @Shared and calls no @Shared method
PlainGetter(g) ==
  /\ g \in PrototypeMethods
  /\ g \notin WrappedShared
  /\ Callee(g) \notin WrappedShared

\* this step starts read a of a plain getter, which throws at once or
\* hands out a promise that is still pending
StartsPlainRead(a) ==
  /\ Len(reads) + 1 = a /\ Len(reads') = a
  /\ PlainGetter(reads'[a].getter)
  /\ reads'[a].state = "pending" \/ IsError(reads'[a].raw)

\* this step is the rejection of the promise of read a of a plain getter
RejectsPlainRead(a) ==
  /\ a \in DOMAIN reads /\ Len(reads') = Len(reads)
  /\ PlainGetter(reads[a].getter)
  /\ reads[a].state = "pending" /\ reads'[a].state # "pending"
  /\ IsError(reads'[a].raw)

MaxHeld == 2

\* the one configuration object of the module
GlobalConfigRef == "globalConfig"

\* getConfig(): return globalConfig
getConfig == GlobalConfigRef

\* the properties of the object a reference names, as a reader finds them
\* now
Deref(ref) == config

\* the option objects a caller passes to configure()
FullConfigureInputs ==
  {[debug |-> b] : b \in BOOLEAN} \cup {[timing |-> b] : b \in BOOLEAN}
    \cup {[logger |-> "customLogger"], [onError |-> "suppress"],
          [debug |-> TRUE, timing |-> TRUE]}

\* a caller obtains the configuration and keeps what it got, with the values
\* it read off it at once
GetConfig ==
  /\ Len(held) < MaxHeld
  /\ held' = Append(held, [ref |-> getConfig, seen |-> Deref(getConfig)])
  /\ UNCHANGED <<proxyVars, validatorVars, codec, lastOp, classOptions,
                 nestedReturn, registry, decorated, framework>>

\* the configuration written and read by callers, nothing else going on
NextConfig ==
  \/ \E options \in FullConfigureInputs : Configure(options)
  \/ resetConfig
  \/ GetConfig

SpecConfig == Init /\ [][NextConfig]_vars

\* C24: a value obtained from getConfig keeps the debug, timing, logger and
\* error-hook values it had when it was obtained, whatever configure or
\* resetConfig calls happen afterwards.
C24_ConfigSnapshotImmutable ==
  \A n \in DOMAIN held :
    \A key \in {"debug", "timing", "logger", "onError"} :
      Deref(held[n].ref)[key] = held[n].seen[key]

(***************************************************************************)
(* decorator: the class @LazyQL returns, called with new.                  *)
(***************************************************************************)
\* new ProxyClass(...): the original class constructs instance i and
\* createLazyProxy wraps it; the caller gets the proxy
Construct(i) ==
  /\ decorated.proxyClass
  /\ ~Constructed(i)
  /\ LET st == wrapSharedMethods(State, i)
         c  == createLazyProxy(proxies, Obj(ClassName, i), ClassName,
                               ClassName)
     IN  /\ completed' = st.completed
         /\ inFlight' = st.inFlight
         /\ older' = st.older
         /\ proxies' = c.proxies
         /\ lastOp' = [op |-> "new", inst |-> i, result |-> c.value]
  /\ UNCHANGED <<config, calls, handles, reads, hookCalls, debugLog>>
  /\ UNCHANGED <<validatorVars, codec, classOptions, nestedReturn, apiVars>>

(***************************************************************************)
(* Debug logging of the get trap.                                          *)
(***************************************************************************)
MaxDebugReads == 2

\* what the options of @LazyQL hold: debug left out, true or false
DebugOptions == {<<>>, ("debug" :> TRUE), ("debug" :> FALSE)}

\* the class is decorated with one of the options; no instance exists yet
InitDebug ==
  /\ config = DefaultConfig
  /\ calls = [i \in Inst |-> [m \in PrototypeMethods |-> 0]]
  /\ completed = [i \in Inst |-> <<>>]
  /\ inFlight = [i \in Inst |-> <<>>]
  /\ handles = <<>>
  /\ reads = <<>>
  /\ hookCalls = <<>>
  /\ proxies = <<>>
  /\ older = [i \in Inst |-> <<>>]
  /\ debugLog = <<>>
  /\ held = <<>>
  /\ framework = IdleFramework
  /\ decorated = AlreadyDecorated
  /\ IdleValidate
  /\ IdleCodec
  /\ IdleStruct
  /\ classOptions \in DebugOptions
  /\ nestedReturn = Undefined
  /\ registry = InitialRegistry

\* instances are constructed, debug is switched on and off globally, and
\* fields of the constructed instances are read
NextDebug ==
  \/ \E i \in Inst : Construct(i)
  \/ \E b \in BOOLEAN : Configure([debug |-> b])
  \/ /\ Len(reads) < MaxDebugReads
     /\ \E i \in Inst, f \in {F_status, F_total, F_note},
           kind \in {"value", "throw"} :
          Constructed(i) /\ Read(i, f, kind)

SpecDebug == InitDebug /\ [][NextDebug]_vars

\* the per-class option debug is given and true
ClassDebugOn ==
  "debug" \in DOMAIN ProxyMetadata.options /\ ProxyMetadata.options["debug"]

\* the step is a read that invokes a computation method
InvokingRead ==
  /\ Len(reads') = Len(reads) + 1
  /\ reads'[Len(reads')].invoked

\* C25: for every read that invokes a computation method, if debug is
\* enabled for the class (per-class option) or debug is enabled globally, a
\* debug message naming the method is logged before the method is invoked.
C25_DebugLogging ==
  [][InvokingRead /\ (ClassDebugOn \/ config.debug)
       => /\ Len(debugLog') = Len(debugLog) + 1
          /\ LET msg == debugLog'[Len(debugLog')]
                 rd  == reads'[Len(reads')]
             IN  /\ msg.getter = rd.getter
                 /\ msg.inst = rd.inst
                 /\ msg.runs = calls[rd.inst][rd.getter]]_vars

(***************************************************************************)
(* decorator: @LazyQL(dtoClass, options) applied to the model class.       *)
(***************************************************************************)
MaxEnableReads == 2

\* registry.classes.set(lazyClass, metadata)
registerClass(reg, lazyClass, metadata) == (lazyClass :> metadata) @@ reg

\* the metadata object the decorator builds (lines 52-60)
DecoratorMetadata(input, options) ==
  [fieldMappings |-> input.mappings, sharedMethods |-> input.shared,
   requiredFields |-> {}, optionalFields |-> {}, options |-> options]

\* a decorator that publishes the metadata before it validates
LazyQLRegisterFirst(reg, dec, input, options) ==
  LET metadata == DecoratorMetadata(input, options)
      r        == validateClass(input.chain, metadata, input.dto)
  IN  [validation |-> r,
       registry   |-> registerClass(reg, ClassName, r.meta),
       decorated  |->
         IF r.threw
         THEN [dec EXCEPT !.state = "threw", !.error = r.errorField,
                          !.validations = @ + 1, !.registrations = @ + 1]
         ELSE [dec EXCEPT !.state = "returned", !.validations = @ + 1,
                          !.registrations = @ + 1, !.proxyClass = TRUE]]

\* the decorator function of lines 48-92: validateClass, which may throw,
\* then registerClass, then the class that wraps construction
LazyQLDecorator(reg, dec, input, options) ==
  LET metadata == DecoratorMetadata(input, options)
      r        == validateClass(input.chain, metadata, input.dto)
  IN  IF r.threw
      THEN [validation |-> r, registry |-> reg,
            decorated  |-> [dec EXCEPT !.state = "threw",
                                       !.error = r.errorField,
                                       !.validations = @ + 1]]
      ELSE [validation |-> r,
            registry   |-> registerClass(reg, ClassName, r.meta),
            decorated  |-> [dec EXCEPT !.state = "returned",
                                       !.validations = @ + 1,
                                       !.registrations = @ + 1,
                                       !.proxyClass = TRUE]]

\* the class definition is evaluated: the decorator runs once
LazyQL ==
  /\ decorated.state = "none"
  /\ LET d == LazyQLDecorator(registry, decorated, vInput, classOptions)
     IN  /\ vMeta' = d.validation.meta
         /\ vWarnings' = d.validation.warnings
         /\ vResult' = IF d.validation.threw THEN "threw" ELSE "returned"
         /\ vError' = d.validation.errorField
         /\ registry' = d.registry
         /\ decorated' = d.decorated
  /\ vFields' = analyzeDTOClass(vInput.dto)
  /\ UNCHANGED <<vInput, codec, lastOp, classOptions, nestedReturn, held,
                 framework>>
  /\ UNCHANGED proxyVars

\* the schema classes the model class is decorated with: one whose fields
\* all have a method or are nullable, one with a required field (email) the
\* class has no method for, one with a nullable field only, and one in
\* which no field can be detected
EnableFields(names) ==
  [k \in DOMAIN names |->
     [name |-> names[k], schemaName |-> NoName,
      nullable |-> names[k] = F_note]]

EnableDTOs ==
  {[NoDTO EXCEPT !.nestAvailable = TRUE, !.lazyAvailable = TRUE,
                 !.existing = EnableFields(names)] :
     names \in {<<F_status, F_total, F_note>>, <<F_status, F_email>>,
                <<F_note>>}}
    \cup {NoDTO}

\* the model class as it is handed to the decorator
EnableInputs ==
  [chain : {<<SeqOf(ModelChain[1].own), SeqOf(ModelChain[2].own)>>},
   mappings : {F_total :> M_getGrandTotal},
   shared : {{M_getTotalsData}}, dto : EnableDTOs]

\* the module of the model class is about to be loaded: the nested class is
\* registered, the model class is not, no instance exists
InitEnable ==
  /\ config = DefaultConfig
  /\ calls = [i \in Inst |-> [m \in PrototypeMethods |-> 0]]
  /\ completed = [i \in Inst |-> <<>>]
  /\ inFlight = [i \in Inst |-> <<>>]
  /\ handles = <<>>
  /\ reads = <<>>
  /\ hookCalls = <<>>
  /\ proxies = <<>>
  /\ older = [i \in Inst |-> <<>>]
  /\ debugLog = <<>>
  /\ held = <<>>
  /\ framework = IdleFramework
  /\ decorated = NotDecorated
  /\ IdleCodec
  /\ IdleStruct
  /\ classOptions = <<>>
  /\ nestedReturn = Undefined
  /\ registry = ("NestedModel" :> NestedMetadata)
  /\ vInput \in EnableInputs
  /\ vMeta = DecoratorMetadata(vInput, classOptions)
  /\ vWarnings = <<>>
  /\ vResult = "pending"
  /\ vError = NoName
  /\ vFields = <<>>

\* the class is decorated, instances are constructed through the class the
\* decorator returned, and their fields are read
NextEnable ==
  \/ LazyQL
  \/ \E i \in Inst : Construct(i)
  \/ /\ Len(reads) < MaxEnableReads
     /\ \E i \in Inst, f \in {F_status, F_total}, kind \in Kinds :
          Constructed(i) /\ Read(i, f, kind)
  \/ \E h \in DOMAIN handles, ok \in BOOLEAN : SettleUnderlying(h, ok)
  \/ \E h \in DOMAIN handles : SharedSettled(h)
  \/ \E a \in DOMAIN reads : ReadSettled(a)

SpecEnable == InitEnable /\ [][NextEnable]_vars

\* C22: when validation raises the hard error while a class is being
\* registered, the error propagates out of the registration call uncaught,
\* the Registry contains no entry for that class afterwards, and no wrapping
\* constructor is produced.
C22_FailedRegistrationLeavesNoTrace ==
  vResult = "threw"
    => /\ decorated.state = "threw"
       /\ decorated.error = vError
       /\ ClassName \notin DOMAIN Registry
       /\ ~decorated.proxyClass
       /\ \A i \in Inst : ~Constructed(i)

\* the decorator ran on a class that has no method for the required field
\* email, and validateClass threw for that field
C22_Witness ==
  /\ vResult = "threw"
  /\ vError = F_email
  /\ decorated.state = "threw"
  /\ decorated.validations = 1

\* the step is a construction through the class the decorator returned
ConstructStep == lastOp'.op = "new" /\ lastOp' # lastOp

\* C23: after a class is enabled, every construction through the returned
\* class yields a wrapped instance (is-wrapped is true and unwrap gives an
\* instance of the original class) with fresh, empty caches; validation and
\* registration ran once at enable time and are not repeated by any
\* construction.
C23_ConstructionYieldsWrapped ==
  [][ConstructStep
       => LET i == lastOp'.inst
              v == lastOp'.result
          IN  /\ isLazyProxy(proxies', v)
              /\ getOriginalInstance(proxies', v) = Obj(ClassName, i)
              /\ completed'[i] = <<>>
              /\ inFlight'[i] = <<>>
              /\ decorated.validations = 1
              /\ decorated.registrations = 1
              /\ decorated' = decorated
              /\ registry' = registry
              /\ UNCHANGED validatorVars]_vars

\* a second instance was just constructed while the first holds the result
\* of a shared computation in its cache
C23_Witness ==
  /\ lastOp.op = "new"
  /\ lastOp.inst = "B"
  /\ isLazyProxy(proxies, lastOp.result)
  /\ completed["A"] # <<>>
  /\ completed["B"] = <<>>

(***************************************************************************)
(* C35  On every wrapped instance no shared-computation name is in both    *)
(* `completed` and `inFlight`; a name enters `inFlight` only in a step     *)
(* that invokes the underlying method (its run count grows by one and the  *)
(* entry is the promise that run returned), and leaves it only in the step *)
(* in which the wrapper's callback for that promise runs.                  *)
(***************************************************************************)
C35_CompletedInFlightDisjoint ==
  /\ [](\A i \in Inst : DOMAIN completed[i] \cap DOMAIN inFlight[i] = {})
  /\ [][\A i \in Inst, m \in PrototypeMethods :
          /\ (m \notin DOMAIN inFlight[i] /\ m \in DOMAIN inFlight'[i])
               => /\ calls'[i][m] = calls[i][m] + 1
                  /\ inFlight'[i][m] = Len(handles) + 1
                  /\ handles'[inFlight'[i][m]].method = m
                  /\ handles'[inFlight'[i][m]].inst = i
                  /\ handles'[inFlight'[i][m]].n = calls'[i][m]
          /\ (m \in DOMAIN inFlight[i] /\ m \notin DOMAIN inFlight'[i])
               => /\ handles[inFlight[i][m]].state \in {"p0_ok", "p0_err"}
                  /\ handles'[inFlight[i][m]].state \in {"ok", "err"}
                  /\ calls' = calls]_vars

\* the step is a read on instance i in which the wrapper of the shared
\* method m ran the original method and that run threw
SharedThrew(i, m) ==
  /\ IsNewRead
  /\ NewRead.inst = i
  /\ Reaches(NewRead.getter, m)
  /\ NewRead.hit = "miss"
  /\ NewRead.src = 0
  /\ calls'[i][m] = calls[i][m] + 1
  /\ NewRead.raw = Err(m, calls'[i][m])

(***************************************************************************)
(* C36  A shared computation that throws synchronously leaves `completed`  *)
(* and `inFlight` unchanged, so the throw is not cached: when the latest   *)
(* run of the method threw, the next call runs the method again.           *)
(***************************************************************************)
C36_SyncThrowNotCached ==
  [][\A i \in Inst, m \in WrappedShared :
       /\ SharedThrew(i, m)
            => /\ completed' = completed
               /\ inFlight' = inFlight
               /\ older' = older
       /\ (/\ \E a \in DOMAIN reads :
                /\ reads[a].inst = i
                /\ reads[a].src = 0
                /\ reads[a].raw = Err(m, calls[i][m])
           /\ IsNewRead /\ NewRead.inst = i /\ Reaches(NewRead.getter, m))
            => /\ NewRead.hit = "miss"
               /\ calls'[i][m] = calls[i][m] + 1]_vars

\* the shared method threw on its first run and ran a second time on the
\* next read
C36_Witness ==
  /\ Len(reads) = 2
  /\ reads[1].inst = "A" /\ reads[2].inst = "A"
  /\ reads[1].raw = Err(M_getTotalsData, 1)
  /\ reads[1].state = "threw"
  /\ reads[1].src = 0
  /\ reads[2].hit = "miss"
  /\ calls["A"][M_getTotalsData] = 2

(***************************************************************************)
(* Nested wrapping of an instance of the model class itself: a getter      *)
(* that returns `this`, or another instance it holds unwrapped.            *)
(***************************************************************************)
MaxRewrapReads == 3

\* getNested returns the raw instance A (its own `this`) or the raw
\* instance B, and the class is decorated with nestedProxy: true
InitRewrap ==
  /\ InitProxy
  /\ IdleValidate
  /\ IdleCodec
  /\ IdleStruct
  /\ classOptions = ("nestedProxy" :> TRUE)
  /\ nestedReturn \in {Obj(ClassName, i) : i \in Inst}
  /\ registry = InitialRegistry

\* reads of nested on A wrap the returned instance once more; the shared
\* method of that instance is read in between
NextRewrap ==
  \/ /\ Len(reads) < MaxRewrapReads
     /\ \/ \E kind \in {"value", "async"} : Read("A", F_nested, kind)
        \/ \E f \in {F_totals_data, F_total}, kind \in Kinds :
             Read(nestedReturn.id, f, kind)
  \/ \E h \in DOMAIN handles, ok \in BOOLEAN : SettleUnderlying(h, ok)
  \/ \E h \in DOMAIN handles : SharedSettled(h)
  \/ \E a \in DOMAIN reads : ReadSettled(a)

SpecRewrap == InitRewrap /\ [][NextRewrap]_vars

\* the n-th run of m on i produced its result: it did not fail, and if it
\* returned a promise the callback of the first wrapper has run
CompletedRun(i, m, n) ==
  /\ n \notin FailedRuns(i, m)
  /\ \A h \in DOMAIN handles :
       (handles[h].inst = i /\ handles[h].method = m /\ handles[h].n = n)
         => handles[h].ran >= 1

(***************************************************************************)
(* C38  Wrapping the same raw instance again never makes a shared          *)
(* computation that already completed on it run again: once a run of the   *)
(* shared method has produced its result, no step, whatever the number of  *)
(* wrappings and calls, runs the method again.                             *)
(***************************************************************************)
C38_RewrapKeepsMemo ==
  [][\A i \in Inst, m \in WrappedShared :
       (\E n \in 1..calls[i][m] : CompletedRun(i, m, n))
         => calls'[i][m] = calls[i][m]]_vars

\* the shared method completed, the instance was wrapped again, and a read
\* after that got the value of the one run from the new wrapper
C38_Witness ==
  \E i \in Inst :
    /\ older[i] # <<>>
    /\ M_getTotalsData \in DOMAIN older[i][1].completed
    /\ M_getTotalsData \in DOMAIN completed[i]
    /\ calls[i][M_getTotalsData] = 1
    /\ Len(reads) = 3
    /\ reads[1].inst = i /\ reads[1].hit = "miss"
    /\ reads[2].field = F_nested
    /\ reads[3].inst = i /\ reads[3].hit = "cache"

(***************************************************************************)
(* proxy-factory: the getOwnPropertyDescriptor trap, and the structural    *)
(* operations next to wrapping.                                            *)
(***************************************************************************)
MaxSideReads == 2

\* Reflect.getOwnPropertyDescriptor(target, prop): own keys only
ReflectGetOwnPropertyDescriptor(i, prop) ==
  IF Includes(TargetOwnKeys(i), prop)
  THEN [k |-> "descriptor", enumerable |-> TRUE, configurable |-> TRUE,
        value |-> IF prop \in {SHARED_CACHE, PENDING_SHARED}
                  THEN [k |-> "map", of |-> prop]
                  ELSE DirectValue(i, prop)]
  ELSE Undefined

\* the getOwnPropertyDescriptor trap (lines 321-333)
getOwnPropertyDescriptor(i, prop) ==
  IF prop \in DOMAIN ProxyMetadata.fieldMappings
       \/ prop \in ProxyMetadata.optionalFields
  THEN [k |-> "descriptor", enumerable |-> TRUE, configurable |-> TRUE,
        value |-> Undefined]
  ELSE ReflectGetOwnPropertyDescriptor(i, prop)

DescribeKey(i, prop) ==
  /\ lastOp' = [op |-> "getOwnPropertyDescriptor", inst |-> i, key |-> prop,
                result |-> getOwnPropertyDescriptor(i, prop)]
  /\ StructFrame

\* the keys the consumer tests and describes: a field with a getter, the
\* field of the shared getter, an optional field, a data property
SideKeys == {F_total, F_totals_data, F_note, F_name}

\* a consumer reads the shared field of an instance, reads the field whose
\* getter returns that instance unwrapped, and tests, enumerates and
\* describes keys in between
NextSide ==
  \/ /\ Len(reads) < MaxSideReads
     /\ \/ \E kind \in {"value", "async"} : Read("A", F_nested, kind)
        \/ \E kind \in Kinds : Read(nestedReturn.id, F_totals_data, kind)
  \/ \E h \in DOMAIN handles, ok \in BOOLEAN : SettleUnderlying(h, ok)
  \/ \E h \in DOMAIN handles : SharedSettled(h)
  \/ \E a \in DOMAIN reads : ReadSettled(a)
  \/ \E f \in SideKeys : HasKey(nestedReturn.id, f)
  \/ OwnKeys(nestedReturn.id)
  \/ \E f \in SideKeys : DescribeKey(nestedReturn.id, f)

SpecSide == InitRewrap /\ [][NextSide]_vars

\* the step is a membership test, a key enumeration or a descriptor query
StructuralStep ==
  /\ lastOp'.op \in {"has", "ownKeys", "getOwnPropertyDescriptor"}
  /\ UNCHANGED <<reads, handles>>

\* createLazyProxy wrapped instance i in this step
WrappedIn(i) ==
  \E p \in DOMAIN proxies' :
    p > Len(proxies) /\ proxies'[p].target = Obj(ClassName, i)

\* no computation method of i ran in the step, the getter of the read that
\* the step is (if it is one) apart
NoMethodRan(i) ==
  \A m \in PrototypeMethods :
    calls'[i][m] # calls[i][m]
      => IsNewRead /\ NewRead.inst = i /\ NewRead.getter = m

(***************************************************************************)
(* C37  Structural operations are side-effect free: wrapping an instance,  *)
(* membership tests, key enumeration and property-descriptor queries never *)
(* invoke any computation method and never change `completed` or           *)
(* `inFlight`.                                                             *)
(***************************************************************************)
C37_StructuralOpsSideEffectFree ==
  [][/\ StructuralStep
          => calls' = calls /\ completed' = completed /\ inFlight' = inFlight
     /\ \A i \in Inst :
          WrappedIn(i)
            => /\ NoMethodRan(i)
               /\ completed'[i] = completed[i]
               /\ inFlight'[i] = inFlight[i]]_vars

(***************************************************************************)
(* The moments at which the get trap reads the global configuration.       *)
(***************************************************************************)
MaxWhenReads == 1

\* the option objects passed to configure() while instances are in use
WhenConfigureInputs ==
  {[debug |-> TRUE], [timing |-> TRUE], [logger |-> "customLogger"],
   [onError |-> "suppress"]}

\* one instance is constructed and read, its promises settle, and the
\* configuration is changed and reset at any time in between
NextWhen ==
  \/ Construct("A")
  \/ \E options \in WhenConfigureInputs : Configure(options)
  \/ resetConfig
  \/ /\ Len(reads) < MaxWhenReads
     /\ Constructed("A")
     /\ \E f \in {F_status, F_total}, kind \in Kinds : Read("A", f, kind)
  \/ \E h \in DOMAIN handles, ok \in BOOLEAN : SettleUnderlying(h, ok)
  \/ \E h \in DOMAIN handles : SharedSettled(h)
  \/ \E a \in DOMAIN reads : ReadSettled(a)

SpecWhen == InitDebug /\ [][NextWhen]_vars

\* the messages of one kind logged for read a
Logged(log, kind, a) ==
  {n \in DOMAIN log : log[n].msg = kind /\ log[n].access = a}

\* the step is the get trap running for a new read that invokes a getter
TrapStep == InvokingRead

\* the step runs the callback the get trap attached to the promise of read a
CallbackStep(a) ==
  /\ a \in DOMAIN reads
  /\ reads[a].state = "pending"
  /\ reads'[a].state # "pending"

\* the read gave a value: the getter returned one, or its promise resolved
GaveValue(rd) == rd.state # "pending" /\ ~IsError(rd.raw)

\* the read failed: the getter threw, or its promise rejected
Failed(rd) == rd.state # "pending" /\ IsError(rd.raw)

\* the error of read rd went through handleError under the hook configured
\* in the current state
RoutedNow(rd) ==
  /\ rd.routed = config.onError
  /\ Len(hookCalls') = Len(hookCalls) + (IF config.onError = "null" THEN 0 ELSE 1)
  /\ config.onError = "null" => rd.result = rd.raw
  /\ config.onError = "suppress" => rd.result = Null

(***************************************************************************)
(* C39 (as amended)  Whether reads of a wrapped instance log "Executing    *)
(* getter" is decided when the instance is wrapped (the class option, or   *)
(* the global flag of that moment when the class gives none) and no later  *)
(* step changes it.  The logger, the timing flag and the error hook are    *)
(* read when they are used: every message goes to the logger configured in *)
(* the step that logs it; a completion message is logged exactly when      *)
(* timing is on in the step in which the getter returns or the read's      *)
(* promise callback runs; and an error is routed through the hook          *)
(* configured in the step in which the getter throws or the read's promise *)
(* callback runs.                                                          *)
(***************************************************************************)
C39_ConfigReadWhenUsed ==
  /\ [][\A p \in DOMAIN proxies : proxies'[p].debug = proxies[p].debug]_vars
  /\ [][Len(proxies') = Len(proxies) + 1
          => proxies'[Len(proxies')].debug =
               (IF "debug" \in DOMAIN ProxyMetadata.options
                THEN ProxyMetadata.options["debug"] ELSE config.debug)]_vars
  /\ [][TrapStep
          => (Logged(debugLog', "Executing getter", Len(reads')) # {}
                <=> proxies[ProxyOf(NewRead.inst)].debug)]_vars
  /\ [][\A n \in DOMAIN debugLog' \ DOMAIN debugLog :
          debugLog'[n].logger = config.logger]_vars
  /\ [][/\ TrapStep /\ GaveValue(NewRead)
          => (Logged(debugLog', "Getter completed", Len(reads')) # {}
                <=> config.timing)
        /\ TrapStep /\ Failed(NewRead) => RoutedNow(NewRead)
        /\ \A a \in DOMAIN reads :
             /\ CallbackStep(a) /\ GaveValue(reads'[a])
                  => (Logged(debugLog', "Getter completed", a) # {}
                        <=> config.timing)
             /\ CallbackStep(a) /\ Failed(reads'[a])
                  => RoutedNow(reads'[a])]_vars

\* an instance wrapped while debug was on globally is read after the flag
\* was reset, and an asynchronous read made with timing off resolved after
\* timing was switched on and the logger replaced
C39_Witness ==
  /\ "debug" \notin DOMAIN ProxyMetadata.options
  /\ Constructed("A")
  /\ proxies[ProxyOf("A")].debug
  /\ ~config.debug
  /\ \E a \in DOMAIN reads :
       /\ reads[a].state = "resolved"
       /\ ~reads[a].timed
       /\ Logged(debugLog, "Executing getter", a) # {}
       /\ \E n \in Logged(debugLog, "Getter completed", a) :
            debugLog[n].logger = "customLogger"

(***************************************************************************)
(* C39  (as stated) ... the timing flag in effect for a read is the one    *)
(* configured at the moment of that read: a read that gave a value logged  *)
(* its completion exactly when timing was on when the property was read.   *)
(***************************************************************************)
C39_TimingAsOfTheRead ==
  \A a \in DOMAIN reads :
    reads[a].invoked /\ GaveValue(reads[a])
      => (Logged(debugLog, "Getter completed", a) # {} <=> reads[a].timed)

(***************************************************************************)
(* Reads waiting for the promise of a shared method.  Once a promise has   *)
(* settled the callbacks attached to it are run by the job queue, so the   *)
(* callbacks of the wrapper and of the get trap are taken under weak       *)
(* fairness; nothing makes the promise of the original method settle.      *)
(***************************************************************************)
SpecIsoFair ==
  /\ Init
  /\ [][NextIso]_vars
  /\ \A h \in 1..MaxIsoReads : WF_vars(SharedSettled(h))
  /\ \A a \in 1..MaxIsoReads : WF_vars(ReadSettled(a))

\* read a holds the promise the wrapper of a shared method handed out
Waits(a) ==
  /\ a \in DOMAIN reads
  /\ reads[a].src # 0
  /\ handles[reads[a].src].shared

\* the promise of the original method behind handle h has not settled
Unsettled(h) == handles[h].state = "pending"

(***************************************************************************)
(* C34  All reads that hold the promise of the same invocation of a shared *)
(* method settle with the outcome of that invocation: the value it         *)
(* resolved to (as seen through the read's getter) or the error it         *)
(* rejected with, before routing.  While the invocation has not settled    *)
(* none of them is settled and the method is not invoked again on that     *)
(* instance; once it has settled each of them eventually settles.          *)
(***************************************************************************)
C34_WaitersShareOutcome ==
  /\ [](\A a \in DOMAIN reads :
          Waits(a) /\ reads[a].state # "pending"
            => LET hd == handles[reads[a].src]
               IN  /\ ~Unsettled(reads[a].src)
                   /\ hd.state = "ok"
                        => reads[a].raw =
                             Derive(reads[a].derive, Val(hd.method, hd.n))
                   /\ hd.state = "err"
                        => reads[a].raw = Err(hd.method, hd.n)
                   /\ hd.state \in {"ok", "err"})
  /\ [](\A a, b \in DOMAIN reads :
          /\ Waits(a) /\ Waits(b) /\ reads[a].src = reads[b].src
          /\ reads[a].state # "pending" /\ reads[b].state # "pending"
          => /\ IsError(reads[a].raw) <=> IsError(reads[b].raw)
             /\ reads[a].derive = reads[b].derive
                  => reads[a].raw = reads[b].raw)
  /\ [][\A h \in DOMAIN handles :
          handles[h].shared /\ Unsettled(h)
            => calls'[handles[h].inst][handles[h].method]
                 = calls[handles[h].inst][handles[h].method]]_vars
  /\ \A a \in 1..MaxIsoReads :
       (Waits(a) /\ ~Unsettled(reads[a].src))
         ~> (a \in DOMAIN reads /\ reads[a].state # "pending")

\* two reads hold the promise of one invocation, the second obtained it
\* from the pending map, and both have settled
C34_Witness ==
  \E a, b \in DOMAIN reads :
    /\ a < b
    /\ Waits(a) /\ Waits(b)
    /\ reads[a].src = reads[b].src
    /\ reads[b].hit = "pending"
    /\ reads[a].state # "pending" /\ reads[b].state # "pending"
    /\ reads[a].raw = reads[b].raw

(***************************************************************************)
(* errors: the message of MissingGetterError, next to the getter name the  *)
(* validator looked for.                                                   *)
(***************************************************************************)
MaxNameLen == 4

\* field names over a lowercase letter, an uppercase letter, a digit and "_"
NameChars == {"a", "B", "1", "_"}

FieldNames == UNION {[1..n -> NameChars] : n \in 1..MaxNameLen}

RECURSIVE SplitFrom(_,_,_)
\* str.split('_') from position k on, `part` being the part begun so far
SplitFrom(str, k, part) ==
  IF k > Len(str) THEN <<part>>
  ELSE IF str[k] = "_" THEN <<part>> \o SplitFrom(str, k + 1, <<>>)
  ELSE SplitFrom(str, k + 1, Append(part, str[k]))

RECURSIVE JoinParts(_)
\* parts.join('')
JoinParts(parts) ==
  IF parts = <<>> THEN <<>> ELSE parts[1] \o JoinParts(Tail(parts))

\* split('_'), capitalize each part, join
toPascalCase(str) ==
  LET parts == SplitFrom(str, 1, <<>>)
  IN  JoinParts([p \in DOMAIN parts |-> capitalize(parts[p])])

\* new MissingGetterError(className, fieldName): the three names its message
\* is made of
MissingGetterError(className, fieldName) ==
  [name |-> "MissingGetterError", className |-> className,
   fieldName |-> fieldName,
   expectedMethod |-> GetPrefix \o toPascalCase(fieldName)]

\* validateClass finds no method of the conventional name for a required
\* field without mapping and throws (lines 321-333)
ThrowMissingGetter ==
  /\ codec.stage = "field"
  /\ codec' = [codec EXCEPT
                 !.stage = "thrown",
                 !.getter = fieldToGetterName(codec.field),
                 !.back = MissingGetterError(ClassName, codec.field)]
  /\ UNCHANGED <<proxyVars, validatorVars, lastOp, classOptions, nestedReturn,
                 apiVars>>

InitMessage ==
  /\ InitProxy
  /\ IdleValidate
  /\ IdleStruct
  /\ IdleNested
  /\ \E f \in FieldNames :
       codec = [stage |-> "field", field |-> f, getter |-> NoName,
                back |-> NoName]

NextMessage == ThrowMissingGetter

SpecMessage == InitMessage /\ [][NextMessage]_vars

(***************************************************************************)
(* C31  The hard error names the class, the field and the exact expected   *)
(* method: for every field name over lowercase letters, digits, uppercase  *)
(* letters and "_", the method name in the message is the name the codec   *)
(* gives for the field, which is the method the validator looked for.      *)
(***************************************************************************)
C31_ErrorNamesCodecMethod ==
  codec.stage = "thrown"
    => /\ codec.back.className = ClassName
       /\ codec.back.fieldName = codec.field
       /\ codec.back.expectedMethod = fieldToGetterName(codec.field)

(***************************************************************************)
(* analyzeDTOClass called on a schema class, with the framework's storages *)
(* in any of the conditions a call may find them in.                       *)
(***************************************************************************)
MaxClosures == 2

\* field metadata as the framework's decorators hand it to the storage
StatusMeta ==
  [target |-> "dto", name |-> F_status, schemaName |-> NoName,
   nullable |-> FALSE]

EmailMeta ==
  [target |-> "dto", name |-> F_email, schemaName |-> NoName,
   nullable |-> TRUE]

OtherMeta ==
  [target |-> "other", name |-> F_status, schemaName |-> NoName,
   nullable |-> FALSE]

\* the deferred closures the lazy storage may hold
Closures ==
  {[key |-> "dto", kind |-> "register", metadata |-> StatusMeta],
   [key |-> "dto", kind |-> "register", metadata |-> EmailMeta],
   [key |-> "dto", kind |-> "consumed", metadata |-> StatusMeta],
   [key |-> "dto", kind |-> "rejected", metadata |-> StatusMeta],
   [key |-> "dto", kind |-> "direct", metadata |-> EmailMeta],
   [key |-> "fieldSymbol", kind |-> "register", metadata |-> OtherMeta],
   [key |-> "fieldSymbol", kind |-> "register", metadata |-> EmailMeta],
   [key |-> "other", kind |-> "register", metadata |-> StatusMeta]}

ClosureLists == UNION {[1..n -> Closures] : n \in 0..MaxClosures}

\* the storages before the call; the entry point is the prototype's or one
\* another library installed on the object
Frameworks ==
  {[IdleFramework EXCEPT !.nestAvailable = n, !.lazyAvailable = l,
                         !.own = o, !.fields = fl, !.lazy = lz,
                         !.functions = fns] :
     n \in BOOLEAN, l \in BOOLEAN, o \in {"none", "instrumented"},
     fl \in {<<>>, <<StatusMeta>>, <<OtherMeta>>},
     lz \in {"map", "undefined", "broken"}, fns \in ClosureLists}

InitDiscover ==
  /\ InitProxy
  /\ IdleCodec
  /\ IdleStruct
  /\ IdleNested
  /\ \E d \in {{}, {F_status}} :
       vInput = [IdleInput EXCEPT !.dto.design = d]
  /\ vMeta = createMetadata(<<>>, {})
  /\ vWarnings = <<>>
  /\ vResult = "pending"
  /\ vError = NoName
  /\ vFields = <<>>
  /\ framework \in Frameworks

\* one call of analyzeDTOClass on the schema class
Discover ==
  /\ vResult = "pending"
  /\ LET r == analyzeDTOClassIn(framework, vInput.dto)
     IN  /\ vFields' = r.fields
         /\ framework' = r.fw
  /\ vResult' = "returned"
  /\ UNCHANGED <<vInput, vMeta, vWarnings, vError, codec, lastOp,
                 classOptions, nestedReturn, held, registry, decorated>>
  /\ UNCHANGED proxyVars

NextDiscover == Discover

SpecDiscover ==
  /\ InitDiscover
  /\ [][NextDiscover]_vars


\* the step is a call of analyzeDTOClass returning
DiscoverStep == vResult = "pending" /\ vResult' = "returned"

\* what the storage holds for the schema class when the call begins
Materialized(fw) == IF fw.nestAvailable THEN ClassFields(fw) ELSE <<>>

\* what forcing the deferred closures yields: the fields of the schema class
\* registered through the entry point by the closures of the class and the
\* field-level closures, in that order, or else the fields of the class
\* those closures wrote to the storage themselves
Forced(fw) ==
  IF ~(fw.nestAvailable /\ fw.lazyAvailable /\ fw.lazy = "map") THEN <<>>
  ELSE LET forced  == SelectSeq(fw.functions, LAMBDA fn : fn.key = "dto")
                        \o SelectSeq(fw.functions,
                                     LAMBDA fn : fn.key = "fieldSymbol")
           through == SelectSeq(forced,
                        LAMBDA fn : /\ fn.kind \in {"register", "rejected"}
                                    /\ fn.metadata.target = "dto")
           written == SelectSeq(forced,
                        LAMBDA fn : /\ fn.kind = "direct"
                                    /\ fn.metadata.target = "dto")
       IN  IF through # <<>>
           THEN [k \in DOMAIN through |-> FieldInfoOf(through[k].metadata)]
           ELSE [k \in DOMAIN written |-> FieldInfoOf(written[k].metadata)]

\* the strategies a call ran
Tried(fw) == {fw.attempted[k] : k \in DOMAIN fw.attempted}

(***************************************************************************)
(* C32  analyzeDTOClass returns the output of the first of the strategies  *)
(* (fields already in the storage, forcing the deferred closures, scan for *)
(* type hints) that yields a field; it runs a later strategy only when     *)
(* every earlier one yielded nothing; when all yield nothing it returns    *)
(* the empty list.                                                         *)
(***************************************************************************)
C32_StrategyOrder ==
  [][DiscoverStep
       => LET s1 == Materialized(framework)
              s2 == Forced(framework)
              s3 == scanForDecoratedFields(vInput.dto)
          IN  /\ vFields' = IF s1 # <<>> THEN s1
                            ELSE IF s2 # <<>> THEN s2 ELSE s3
              /\ "forced" \in Tried(framework') => s1 = <<>>
              /\ "scan" \in Tried(framework') => s1 = <<>> /\ s2 = <<>>
              /\ s1 = <<>> /\ s2 = <<>> /\ s3 = <<>> => vFields' = <<>>]_vars

\* the first two strategies ran and found nothing, the scan gave the fields
C32_Witness ==
  /\ vResult = "returned"
  /\ framework.attempted = <<"materialized", "forced", "scan">>
  /\ framework.functions # <<>>
  /\ vFields # <<>>
  /\ vFields[1].type = "designType"

(***************************************************************************)
(* C33  When analyzeDTOClass returns, addClassFieldMetadata of the         *)
(* framework's storage is the function it was before the call, whether no  *)
(* closure was forced, the closures succeeded, closures threw or the lazy  *)
(* storage could not be walked; and every registration the capturing       *)
(* function received was passed on to the function it replaced.            *)
(***************************************************************************)
C33_PatchAndRestore ==
  [][DiscoverStep
       => /\ EntryPoint(framework') = EntryPoint(framework)
          /\ SubSeq(framework'.received, Len(framework.received) + 1,
                    Len(framework'.received))
               = SubSeq(framework'.intercepted,
                        Len(framework.intercepted) + 1,
                        Len(framework'.intercepted))]_vars

\* the capturing function was installed over another library's, a closure
\* registered a field, another threw, and the call has returned
C33_Witness ==
  /\ vResult = "returned"
  /\ "forced" \in Tried(framework)
  /\ framework.own = "instrumented"
  /\ Len(framework.intercepted) = 1
  /\ \E k \in DOMAIN framework.functions :
       /\ framework.functions[k].key = "dto"
       /\ framework.functions[k].kind = "consumed"
====
